---------------------------- MODULE Spec2Model ----------------------------
(***************************************************************************)
(* Model of tasks/scoring.py of the Smart Task Analyzer: task validation,  *)
(* urgency scoring, dependency-cycle detection (DFS), the four scoring     *)
(* strategies, score_task and analyze_tasks.                                *)
(*                                                                         *)
(* Python values are tagged records [k |-> kind, ...]; a task (a dict) is  *)
(* a function whose DOMAIN is the set of keys the dict holds; a str is a   *)
(* sequence of one-character strings; a finite number is an exact rational *)
(* [n, d]; positions are Python's 0-based indexes (TLA+ index minus 1).    *)
(***************************************************************************)
EXTENDS Integers, Sequences, FiniteSets, TLC

VARIABLES
    tasks,      \* the caller's task list (a list of dicts), as it is now
    pc,         \* "call": nothing called yet; "dfs": inside the DFS; "done"
    op,         \* the function that was called
    arg,        \* the arguments of the call, as they were when it was made
    dfs,        \* the local state of detect_circular_dependencies
    ret         \* the outcome of the call: a return value or an exception

vars == <<tasks, pc, op, arg, dfs, ret>>

-----------------------------------------------------------------------------
(* Python values *)

PyNone == [k |-> "none"]
PyInt(n) == [k |-> "int", v |-> n]
PyBool(b) == [k |-> "bool", v |-> b]
\* a finite float, held exactly as the rational n/d (d > 0)
PyFloat(n, d) == [k |-> "float", n |-> n, d |-> d]
\* float('inf'), as json.loads gives for 1e999
PyInf == [k |-> "inf"]
\* an int too large for a float (such as 10**400)
PyHuge == [k |-> "hugeint"]
PyStr(chars) == [k |-> "str", v |-> chars]
PyList(elems) == [k |-> "list", v |-> elems]
\* a datetime.date, held as its proleptic Gregorian ordinal
PyDate(ord) == [k |-> "date", v |-> ord]

\* bool(v): the truth value Python gives a value
Truthy(v) ==
    CASE v.k = "none" -> FALSE
      [] v.k = "int" -> v.v # 0
      [] v.k = "bool" -> v.v
      [] v.k = "float" -> v.n # 0
      [] v.k \in {"str", "list"} -> Len(v.v) > 0
      [] OTHER -> TRUE

\* whether hash(v) succeeds, as a dict key or a set member needs
Hashable(v) == v.k # "list"

\* whether iter(v) succeeds
Iterable(v) == v.k \in {"list", "str"}

\* the elements a for loop over v sees
Elems(v) ==
    IF v.k = "list" THEN v.v
    ELSE [j \in 1..Len(v.v) |-> PyStr(<<v.v[j]>>)]

\* dict.get(key, default)
Get(d, key, default) == IF key \in DOMAIN d THEN d[key] ELSE default

\* list.index(x): the 0-based position of the first element equal to x
Index(seq, x) == (CHOOSE j \in 1..Len(seq) : seq[j] = x /\ \A h \in 1..(j-1) : seq[h] # x) - 1

\* x in seq, for a list
InSeq(x, seq) == \E j \in 1..Len(seq) : seq[j] = x

-----------------------------------------------------------------------------
(* Numbers: exact rationals [n, d] with d > 0, in lowest terms *)

RECURSIVE Gcd(_, _)
Gcd(a, b) == IF b = 0 THEN a ELSE Gcd(b, a % b)

Abs(x) == IF x < 0 THEN -x ELSE x

Rat(n, d) ==
    LET g == Gcd(Abs(n), Abs(d))
        sign == IF d < 0 THEN -1 ELSE 1
    IN [n |-> sign * (n \div g), d |-> sign * (d \div g)]

RInt(n) == [n |-> n, d |-> 1]
RAdd(a, b) == Rat(a.n * b.d + b.n * a.d, a.d * b.d)
RSub(a, b) == Rat(a.n * b.d - b.n * a.d, a.d * b.d)
RMul(a, b) == Rat(a.n * b.n, a.d * b.d)
RDiv(a, b) == Rat(a.n * b.d, a.d * b.n)
RLt(a, b) == a.n * b.d < b.n * a.d
RLe(a, b) == a.n * b.d <= b.n * a.d
RMax(a, b) == IF RLt(a, b) THEN b ELSE a
RMin(a, b) == IF RLt(b, a) THEN b ELSE a

\* int(x) of a number: truncation toward zero
RTrunc(a) == IF a.n >= 0 THEN a.n \div a.d ELSE -((-a.n) \div a.d)

\* round(x, 2), in hundredths: the nearest, a tie going to the even one
Round2(a) ==
    LET scaled == 100 * a.n
        low == scaled \div a.d
        twice == 2 * (scaled - low * a.d)
    IN IF twice < a.d THEN low
       ELSE IF twice > a.d THEN low + 1
       ELSE IF low % 2 = 0 THEN low ELSE low + 1

\* the number a Python number stands for in arithmetic and comparisons
IsNum(v) == v.k \in {"int", "bool", "float"}
Num(v) ==
    CASE v.k = "int" -> RInt(v.v)
      [] v.k = "bool" -> RInt(IF v.v THEN 1 ELSE 0)
      [] v.k = "float" -> Rat(v.n, v.d)

-----------------------------------------------------------------------------
(* Outcomes of a call: a returned value, or the exception that leaves it *)

Return(value) == [raised |-> FALSE, exc |-> "", value |-> value]
Raise(exc) == [raised |-> TRUE, exc |-> exc, value |-> <<>>]

-----------------------------------------------------------------------------
(* Strings: a str is a sequence of one-character strings; a message built   *)
(* with an f-string or + is the concatenation of its parts, each part one   *)
(* element of the sequence.                                                  *)

Digits == {"0", "1", "2", "3", "4", "5", "6", "7", "8", "9"}

DigitVal(c) ==
    CASE c = "0" -> 0 [] c = "1" -> 1 [] c = "2" -> 2 [] c = "3" -> 3
      [] c = "4" -> 4 [] c = "5" -> 5 [] c = "6" -> 6 [] c = "7" -> 7
      [] c = "8" -> 8 [] c = "9" -> 9

AllDigits(chars) == Len(chars) > 0 /\ \A j \in 1..Len(chars) : chars[j] \in Digits

RECURSIVE DecimalVal(_)
DecimalVal(chars) ==
    IF chars = <<>> THEN 0
    ELSE 10 * DecimalVal(SubSeq(chars, 1, Len(chars) - 1)) + DigitVal(chars[Len(chars)])

RECURSIVE Pow10(_)
Pow10(e) == IF e = 0 THEN 1 ELSE 10 * Pow10(e - 1)

\* chars without a leading sign, and the sign
Unsigned(chars) ==
    IF chars # <<>> /\ chars[1] \in {"+", "-"} THEN SubSeq(chars, 2, Len(chars)) ELSE chars
SignOf(chars) == IF chars # <<>> /\ chars[1] = "-" THEN -1 ELSE 1

\* int(s) of a str of signs, digits, points and letters: an optional sign and
\* digits give the int; anything else is a ValueError
IntOfStr(chars) ==
    IF AllDigits(Unsigned(chars))
    THEN Return(SignOf(chars) * DecimalVal(Unsigned(chars)))
    ELSE Raise("ValueError")

\* float(s) of such a str: an optional sign, digits and at most one point with
\* a digit on a side of it give the float; anything else is a ValueError
FloatOfStr(chars) ==
    LET body == Unsigned(chars)
        points == {j \in 1..Len(body) : body[j] = "."}
        cut == IF points = {} THEN Len(body) + 1 ELSE CHOOSE j \in points : TRUE
        whole == SubSeq(body, 1, cut - 1)
        frac == SubSeq(body, cut + 1, Len(body))
        wellFormed ==
            /\ Cardinality(points) <= 1
            /\ Len(whole) + Len(frac) > 0
            /\ \A j \in 1..Len(whole) : whole[j] \in Digits
            /\ \A j \in 1..Len(frac) : frac[j] \in Digits
    IN IF wellFormed
       THEN Return(Rat(SignOf(chars) * (DecimalVal(whole) * Pow10(Len(frac)) + DecimalVal(frac)),
                       Pow10(Len(frac))))
       ELSE Raise("ValueError")

\* str(n) of an int, as the one part of a message it makes
IntStr(n) == ToString(n)

-----------------------------------------------------------------------------
(* int() and float() of a value *)

\* int(v): the int, or [huge] for an int beyond every bound, or the exception
IntOf(v) ==
    CASE v.k = "int" -> Return(v.v)
      [] v.k = "bool" -> Return(IF v.v THEN 1 ELSE 0)
      [] v.k = "float" -> Return(RTrunc(Rat(v.n, v.d)))
      [] v.k = "inf" -> Raise("OverflowError")
      [] v.k = "hugeint" -> [raised |-> FALSE, exc |-> "", value |-> 0, huge |-> TRUE]
      [] v.k = "str" -> IntOfStr(v.v)
      [] OTHER -> Raise("TypeError")

IsHuge(r) == "huge" \in DOMAIN r

\* float(v): the number, or [inf] for float('inf'), or the exception
FloatOf(v) ==
    CASE v.k \in {"int", "bool", "float"} -> Return(Num(v))
      [] v.k = "inf" -> [raised |-> FALSE, exc |-> "", value |-> RInt(0), inf |-> TRUE]
      [] v.k = "hugeint" -> Raise("OverflowError")
      [] v.k = "str" -> FloatOfStr(v.v)
      [] OTHER -> Raise("TypeError")

IsInf(r) == "inf" \in DOMAIN r

-----------------------------------------------------------------------------
(* Dates: a datetime.date is its proleptic Gregorian ordinal (date.toordinal) *)

IsLeap(y) == y % 4 = 0 /\ (y % 100 # 0 \/ y % 400 = 0)

DaysInMonth(y, m) ==
    CASE m \in {1, 3, 5, 7, 8, 10, 12} -> 31
      [] m \in {4, 6, 9, 11} -> 30
      [] m = 2 -> IF IsLeap(y) THEN 29 ELSE 28

RECURSIVE DaysBeforeMonth(_, _)
DaysBeforeMonth(y, m) ==
    IF m = 1 THEN 0 ELSE DaysBeforeMonth(y, m - 1) + DaysInMonth(y, m - 1)

DaysBeforeYear(y) ==
    (y - 1) * 365 + (y - 1) \div 4 - (y - 1) \div 100 + (y - 1) \div 400

Ordinal(y, m, d) == DaysBeforeYear(y) + DaysBeforeMonth(y, m) + d

\* the parts of chars between its "-" characters
RECURSIVE SplitDash(_)
SplitDash(chars) ==
    LET dashes == {j \in 1..Len(chars) : chars[j] = "-"}
    IN IF dashes = {} THEN <<chars>>
       ELSE LET j == CHOOSE j \in dashes : \A h \in dashes : j <= h
            IN <<SubSeq(chars, 1, j - 1)>> \o SplitDash(SubSeq(chars, j + 1, Len(chars)))

\* datetime.strptime(s, '%Y-%m-%d').date() of a str of digits, "-" and
\* letters: four digits, one or two digits of a month, one or two digits of a
\* day of that month; anything else is a ValueError
Strptime(chars) ==
    LET parts == SplitDash(chars)
        wellFormed ==
            /\ Len(parts) = 3
            /\ AllDigits(parts[1]) /\ Len(parts[1]) = 4
            /\ AllDigits(parts[2]) /\ Len(parts[2]) \in {1, 2}
            /\ AllDigits(parts[3]) /\ Len(parts[3]) \in {1, 2}
        y == DecimalVal(parts[1])
        m == DecimalVal(parts[2])
        d == DecimalVal(parts[3])
    IN IF wellFormed /\ y >= 1 /\ m \in 1..12 /\ d >= 1 /\ d <= DaysInMonth(y, m)
       THEN Return(Ordinal(y, m, d))
       ELSE Raise("ValueError")

-----------------------------------------------------------------------------
(* validate_task *)

Invalid(parts) == Return(<<FALSE, PyStr(parts)>>)

\* the check of importance: (True, None) when it passes, else (False, message),
\* or the exception that the except clause does not catch
CheckImportance(task) ==
    IF "importance" \notin DOMAIN task THEN Return(<<TRUE, PyNone>>)
    ELSE LET r == IntOf(task["importance"])
         IN IF r.raised
            THEN IF r.exc \in {"ValueError", "TypeError"}
                 THEN Invalid(<<"Importance must be an integer">>)
                 ELSE Raise(r.exc)
            ELSE IF IsHuge(r)
                 THEN Invalid(<<"Importance must be between 1 and 10, got ", "10**400">>)
                 ELSE IF ~(1 <= r.value /\ r.value <= 10)
                      THEN Invalid(<<"Importance must be between 1 and 10, got ", IntStr(r.value)>>)
                      ELSE Return(<<TRUE, PyNone>>)

CheckHours(task) ==
    IF "estimated_hours" \notin DOMAIN task THEN Return(<<TRUE, PyNone>>)
    ELSE LET r == FloatOf(task["estimated_hours"])
         IN IF r.raised
            THEN IF r.exc \in {"ValueError", "TypeError"}
                 THEN Invalid(<<"Estimated hours must be a number">>)
                 ELSE Raise(r.exc)
            ELSE IF ~IsInf(r) /\ RLt(r.value, RInt(0))
                 THEN Invalid(<<"Estimated hours must be non-negative">>)
                 ELSE Return(<<TRUE, PyNone>>)

CheckDueDate(task) ==
    IF "due_date" \in DOMAIN task /\ Truthy(task["due_date"])
       /\ task["due_date"].k = "str" /\ Strptime(task["due_date"].v).raised
    THEN Invalid(<<"Invalid date format: ">> \o task["due_date"].v
                    \o <<". Expected YYYY-MM-DD">>)
    ELSE Return(<<TRUE, PyNone>>)

CheckDependencies(task) ==
    IF "dependencies" \in DOMAIN task /\ task["dependencies"].k # "list"
    THEN Invalid(<<"Dependencies must be a list">>)
    ELSE Return(<<TRUE, PyNone>>)

Passed(r) == ~r.raised /\ r.value[1]

\* validate_task with the check of dependencies moved in front of the others
validate_task_DependenciesFirst(task) ==
    IF "title" \notin DOMAIN task
    THEN Invalid(<<"Missing required field: ", "title">>)
    ELSE IF ~Passed(CheckDependencies(task)) THEN CheckDependencies(task)
    ELSE IF ~Passed(CheckImportance(task)) THEN CheckImportance(task)
    ELSE IF ~Passed(CheckHours(task)) THEN CheckHours(task)
    ELSE IF ~Passed(CheckDueDate(task)) THEN CheckDueDate(task)
    ELSE Return(<<TRUE, PyNone>>)

\* validate_task(task): (is_valid, error_message), or the exception
validate_task(task) ==
    IF "title" \notin DOMAIN task
    THEN Invalid(<<"Missing required field: ", "title">>)
    ELSE IF ~Passed(CheckImportance(task)) THEN CheckImportance(task)
    ELSE IF ~Passed(CheckHours(task)) THEN CheckHours(task)
    ELSE IF ~Passed(CheckDueDate(task)) THEN CheckDueDate(task)
    ELSE IF ~Passed(CheckDependencies(task)) THEN CheckDependencies(task)
    ELSE Return(<<TRUE, PyNone>>)

\* parse_date(date_str): a date's ordinal, or None
parse_date(v) ==
    IF ~Truthy(v) THEN PyNone
    ELSE IF v.k = "str"
         THEN IF Strptime(v.v).raised THEN PyNone ELSE PyDate(Strptime(v.v).value)
         ELSE PyNone

\* the score without the cap of the overdue penalty
calculate_urgency_score_Uncapped(due_date, today) ==
    IF ~Truthy(due_date) THEN RInt(30)
    ELSE LET days_diff == due_date.v - today
         IN IF days_diff < 0
            THEN RAdd(RInt(100), RMul(RInt(Abs(days_diff)), Rat(5, 2)))
            ELSE IF days_diff = 0 THEN RInt(100)
            ELSE IF days_diff <= 1 THEN RInt(90)
            ELSE IF days_diff <= 3 THEN RInt(75)
            ELSE IF days_diff <= 7 THEN RInt(60)
            ELSE IF days_diff <= 14 THEN RInt(45)
            ELSE IF days_diff <= 30 THEN RInt(30)
            ELSE RInt(15)

\* the score with the last day of each band given to the next band
calculate_urgency_score_StrictBands(due_date, today) ==
    IF ~Truthy(due_date) THEN RInt(30)
    ELSE LET days_diff == due_date.v - today
         IN IF days_diff < 0
            THEN RMin(RInt(200), RAdd(RInt(100), RMul(RInt(Abs(days_diff)), Rat(5, 2))))
            ELSE IF days_diff = 0 THEN RInt(100)
            ELSE IF days_diff <= 1 THEN RInt(90)
            ELSE IF days_diff < 3 THEN RInt(75)
            ELSE IF days_diff < 7 THEN RInt(60)
            ELSE IF days_diff < 14 THEN RInt(45)
            ELSE IF days_diff < 30 THEN RInt(30)
            ELSE RInt(15)

\* the score with a task due today taken for one due in the far future
calculate_urgency_score_TodayIsFar(due_date, today) ==
    IF ~Truthy(due_date) THEN RInt(30)
    ELSE LET days_diff == due_date.v - today
         IN IF days_diff < 0
            THEN RMin(RInt(200), RAdd(RInt(100), RMul(RInt(Abs(days_diff)), Rat(5, 2))))
            ELSE IF days_diff = 0 THEN RInt(15)
            ELSE IF days_diff <= 1 THEN RInt(90)
            ELSE IF days_diff <= 3 THEN RInt(75)
            ELSE IF days_diff <= 7 THEN RInt(60)
            ELSE IF days_diff <= 14 THEN RInt(45)
            ELSE IF days_diff <= 30 THEN RInt(30)
            ELSE RInt(15)

\* calculate_urgency_score(due_date, today), today an ordinal
calculate_urgency_score(due_date, today) ==
    IF ~Truthy(due_date) THEN RInt(30)
    ELSE LET days_diff == due_date.v - today
         IN IF days_diff < 0
            THEN RMin(RInt(200), RAdd(RInt(100), RMul(RInt(Abs(days_diff)), Rat(5, 2))))
            ELSE IF days_diff = 0 THEN RInt(100)
            ELSE IF days_diff <= 1 THEN RInt(90)
            ELSE IF days_diff <= 3 THEN RInt(75)
            ELSE IF days_diff <= 7 THEN RInt(60)
            ELSE IF days_diff <= 14 THEN RInt(45)
            ELSE IF days_diff <= 30 THEN RInt(30)
            ELSE RInt(15)

-----------------------------------------------------------------------------
(* detect_circular_dependencies: the graph *)

\* task.get('id', i) for the task at 0-based position i-1
EffId(ts, i) == Get(ts[i], "id", PyInt(i - 1))

\* the keys of task_ids = {task.get('id', i): i for i, task in enumerate(tasks)}
TaskIdKeys(ts) == {EffId(ts, i) : i \in 1..Len(ts)}

\* task.get('dependencies', [])
DepsOf(t) == Get(t, "dependencies", PyList(<<>>))

\* the graph construction raises TypeError: an id or a looked-up dependency is
\* unhashable, or a dependencies value cannot be iterated
GraphRaises(ts) ==
    \/ \E i \in 1..Len(ts) : ~Hashable(EffId(ts, i))
    \/ \E i \in 1..Len(ts) :
          \/ ~Iterable(DepsOf(ts[i]))
          \/ \E j \in 1..Len(Elems(DepsOf(ts[i]))) : ~Hashable(Elems(DepsOf(ts[i]))[j])

\* graph[task_id] after the loop: the dependencies, in order, that are keys of
\* task_ids; a later task with the same id replaces the earlier one's list
GraphOf(ts) ==
    [id \in TaskIdKeys(ts) |->
        LET i == CHOOSE i \in 1..Len(ts) :
                    EffId(ts, i) = id /\ \A h \in (i+1)..Len(ts) : EffId(ts, h) # id
        IN SelectSeq(Elems(DepsOf(ts[i])), LAMBDA dep : dep \in TaskIdKeys(ts))]

\* the keys of graph in insertion order: each id at its first occurrence
RECURSIVE KeyOrder(_, _)
KeyOrder(ts, i) ==
    IF i = 0 THEN <<>>
    ELSE LET before == KeyOrder(ts, i - 1)
         IN IF InSeq(EffId(ts, i), before) THEN before
            ELSE Append(before, EffId(ts, i))

-----------------------------------------------------------------------------
(* detect_circular_dependencies: the depth-first search, one step at a time. *)
(* A DFS state s holds the locals of the function: order and graph (the dict *)
(* graph, its keys in insertion order), visited, rec_stack, path (the list   *)
(* passed down the recursion), cycle_path, frames (the calls of dfs that are *)
(* active, each with its node and the 1-based position i of the neighbor its *)
(* for loop examines next), root (the 1-based position in order of the node  *)
(* the outer loop examines next), status and the returned pair.              *)

\* the state on reaching the outer loop, or the TypeError of the graph construction
DfsStart(ts) ==
    IF GraphRaises(ts)
    THEN [order |-> <<>>, graph |-> <<>>, visited |-> {}, rec_stack |-> {},
          path |-> <<>>, cycle_path |-> <<>>, frames |-> <<>>, root |-> 1,
          status |-> "raised", has |-> FALSE, cycle |-> <<>>]
    ELSE [order |-> KeyOrder(ts, Len(ts)), graph |-> GraphOf(ts),
          visited |-> {}, rec_stack |-> {},
          path |-> <<>>, cycle_path |-> <<>>, frames |-> <<>>, root |-> 1,
          status |-> "running", has |-> FALSE, cycle |-> <<>>]

Top(s) == s.frames[Len(s.frames)]

\* the neighbor the innermost active call examines next
Neighbor(s) == s.graph[Top(s).node][Top(s).i]

\* the entry of dfs(node, path): visited.add, rec_stack.add, path.append
DfsEnter(s, node) ==
    [s EXCEPT !.visited = @ \cup {node},
              !.rec_stack = @ \cup {node},
              !.path = Append(@, node),
              !.frames = Append(@, [node |-> node, i |-> 1])]

\* the outer loop finds its next node unvisited and calls dfs(node, [])
CanRootCall(s) ==
    /\ s.status = "running" /\ s.frames = <<>>
    /\ s.root <= Len(s.order) /\ s.order[s.root] \notin s.visited
RootCall(s) == DfsEnter([s EXCEPT !.root = @ + 1, !.path = <<>>], s.order[s.root])

\* the outer loop finds its next node visited already
CanRootSkip(s) ==
    /\ s.status = "running" /\ s.frames = <<>>
    /\ s.root <= Len(s.order) /\ s.order[s.root] \in s.visited
RootSkip(s) == [s EXCEPT !.root = @ + 1]

\* (mutant) the outer loop returns after its first node
CanRootsDone_AfterFirst(s) ==
    s.status = "running" /\ s.frames = <<>> /\ s.root > 1

\* the outer loop is over: return False, []
CanRootsDone(s) ==
    s.status = "running" /\ s.frames = <<>> /\ s.root > Len(s.order)
RootsDone(s) == [s EXCEPT !.status = "returned", !.has = FALSE, !.cycle = <<>>]

HasNeighbor(s) ==
    /\ s.status = "running" /\ s.frames # <<>>
    /\ Top(s).i <= Len(s.graph[Top(s).node])

\* neighbor not in visited: the recursive call dfs(neighbor, path)
CanDescend(s) == HasNeighbor(s) /\ Neighbor(s) \notin s.visited
Descend(s) == DfsEnter(s, Neighbor(s))

\* (mutant) the whole path of the search is reported, its lead-in included
FoundCycle_Untrimmed(s) ==
    LET found == s.path \o <<Neighbor(s)>>
    IN [s EXCEPT !.cycle_path = @ \o found,
                 !.status = "returned", !.has = TRUE, !.cycle = s.cycle_path \o found]

\* neighbor in rec_stack: the cycle is path[path.index(neighbor):] + [neighbor];
\* every active call returns True and the function returns True, cycle_path
CanFoundCycle(s) ==
    HasNeighbor(s) /\ Neighbor(s) \in s.visited /\ Neighbor(s) \in s.rec_stack
FoundCycle(s) ==
    LET cycle_start == Index(s.path, Neighbor(s))
        found == SubSeq(s.path, cycle_start + 1, Len(s.path)) \o <<Neighbor(s)>>
    IN [s EXCEPT !.cycle_path = @ \o found,
                 !.status = "returned", !.has = TRUE, !.cycle = s.cycle_path \o found]

\* (mutant) the loop stays on a visited neighbor
SkipNeighbor_Stuck(s) == s

\* neighbor visited and not on the recursion stack: the loop goes on
CanSkipNeighbor(s) ==
    HasNeighbor(s) /\ Neighbor(s) \in s.visited /\ Neighbor(s) \notin s.rec_stack
SkipNeighbor(s) ==
    [s EXCEPT !.frames[Len(s.frames)].i = @ + 1]

\* (mutant) the call returns False with its node left on the recursion stack
Backtrack_KeepsStack(s) ==
    LET n == Len(s.frames)
        popped == SubSeq(s.frames, 1, n - 1)
    IN [s EXCEPT !.path = SubSeq(@, 1, Len(@) - 1),
                 !.frames = IF n = 1 THEN popped
                            ELSE [popped EXCEPT ![n - 1].i = @ + 1]]

\* the for loop of the innermost call is over: rec_stack.remove, path.pop,
\* return False; the caller, if any, goes on with its next neighbor
CanBacktrack(s) ==
    /\ s.status = "running" /\ s.frames # <<>>
    /\ Top(s).i > Len(s.graph[Top(s).node])
Backtrack(s) ==
    LET n == Len(s.frames)
        popped == SubSeq(s.frames, 1, n - 1)
    IN [s EXCEPT !.rec_stack = @ \ {Top(s).node},
                 !.path = SubSeq(@, 1, Len(@) - 1),
                 !.frames = IF n = 1 THEN popped
                            ELSE [popped EXCEPT ![n - 1].i = @ + 1]]

\* the one step the search takes from a running state
DfsStep(s) ==
    CASE CanRootCall(s) -> RootCall(s)
      [] CanRootSkip(s) -> RootSkip(s)
      [] CanRootsDone(s) -> RootsDone(s)
      [] CanDescend(s) -> Descend(s)
      [] CanFoundCycle(s) -> FoundCycle(s)
      [] CanSkipNeighbor(s) -> SkipNeighbor(s)
      [] CanBacktrack(s) -> Backtrack(s)

RECURSIVE DfsRun(_)
DfsRun(s) == IF s.status = "running" THEN DfsRun(DfsStep(s)) ELSE s

\* detect_circular_dependencies(tasks): [raised, has, cycle]
detect_circular_dependencies(ts) ==
    LET s == DfsRun(DfsStart(ts))
    IN [raised |-> s.status = "raised", has |-> s.has, cycle |-> s.cycle]

-----------------------------------------------------------------------------
(* build_dependency_graph *)

\* the parts of f"{v}" for an id
IdStr(v) ==
    CASE v.k = "str" -> v.v
      [] v.k = "none" -> <<"None">>
      [] v.k = "int" -> <<ToString(v.v)>>
      [] v.k = "bool" -> <<IF v.v THEN "True" ELSE "False">>

Untitled == PyStr(<<"U", "n", "t", "i", "t", "l", "e", "d">>)

\* task.get('title', 'Untitled')[:20] raises TypeError: the title is a value
\* that cannot be sliced
TitleRaises(task) == Get(task, "title", Untitled).k \notin {"str", "list"}

\* the node of the task at position i, its title a str or absent
NodeOf(ts, i) ==
    LET task_id == EffId(ts, i)
        shown == Get(ts[i], "title", Untitled).v
    IN [id |-> task_id,
        title |-> Get(ts[i], "title", PyStr(<<"Task ">> \o IdStr(task_id))),
        label |-> PyStr(IdStr(task_id) \o <<": ">>
                        \o SubSeq(shown, 1, IF Len(shown) > 20 THEN 20 ELSE Len(shown)))]

\* the edges of the task at position i with every dependency entry kept,
\* known id or not
EdgesOf_All(ts, i) ==
    [j \in 1..Len(Elems(DepsOf(ts[i]))) |->
        [from |-> EffId(ts, i), to |-> Elems(DepsOf(ts[i]))[j]]]

\* the edges of the task at position i: one per dependency entry, in order,
\* that is a key of task_ids
EdgesOf(ts, i) ==
    LET known == SelectSeq(Elems(DepsOf(ts[i])), LAMBDA dep : dep \in TaskIdKeys(ts))
    IN [j \in 1..Len(known) |-> [from |-> EffId(ts, i), to |-> known[j]]]

\* the edges of the tasks from position i on
RECURSIVE EdgesFrom(_, _)
EdgesFrom(ts, i) ==
    IF i > Len(ts) THEN <<>> ELSE EdgesOf(ts, i) \o EdgesFrom(ts, i + 1)

\* build_dependency_graph(tasks): the dict, or the TypeError of an id, a title
\* or a dependencies value the construction cannot take. circular_nodes is
\* list(set(cycle)), whose order is the set's: held as the set of its elements
build_dependency_graph(ts) ==
    IF GraphRaises(ts) \/ \E i \in 1..Len(ts) : TitleRaises(ts[i])
    THEN Raise("TypeError")
    ELSE LET found == detect_circular_dependencies(ts)
         IN Return([nodes |-> [i \in 1..Len(ts) |-> NodeOf(ts, i)],
                    edges |-> EdgesFrom(ts, 1),
                    circular_nodes |->
                        IF found.has THEN {found.cycle[j] : j \in 1..Len(found.cycle)}
                        ELSE {}])

-----------------------------------------------------------------------------
(* count_blocked_tasks and the scoring strategies *)

\* a == b for two values: numbers by value, anything else by kind and content
PyEq(a, b) == IF IsNum(a) /\ IsNum(b) THEN Num(a) = Num(b) ELSE a = b

\* task_id in deps: a list is searched with ==; a str takes only a str on the
\* left; any other value cannot be searched
Contains(deps, x) ==
    CASE deps.k = "list" -> Return(\E j \in 1..Len(deps.v) : PyEq(deps.v[j], x))
      [] deps.k = "str" ->
            IF x.k = "str"
            THEN Return(\E j \in 0..(Len(deps.v) - Len(x.v)) :
                            SubSeq(deps.v, j + 1, j + Len(x.v)) = x.v)
            ELSE Raise("TypeError")
      [] OTHER -> Raise("TypeError")

\* the count that only tells whether any task lists task_id
count_blocked_tasks_AnyDependent(task_id, ts) ==
    IF \E i \in 1..Len(ts) : Contains(DepsOf(ts[i]), task_id).raised
    THEN Raise("TypeError")
    ELSE Return(IF \E i \in 1..Len(ts) : Contains(DepsOf(ts[i]), task_id).value THEN 1 ELSE 0)

\* count_blocked_tasks(task_id, tasks): the count, or the TypeError of a
\* dependencies value that cannot be searched
count_blocked_tasks(task_id, ts) ==
    IF \E i \in 1..Len(ts) : Contains(DepsOf(ts[i]), task_id).raised
    THEN Raise("TypeError")
    ELSE Return(Cardinality({i \in 1..Len(ts) : Contains(DepsOf(ts[i]), task_id).value}))

\* tasks.index(task) if task in tasks else 0
TaskIndex(ts, task) == IF InSeq(task, ts) THEN Index(ts, task) ELSE 0

\* task.get('id', tasks.index(task) if task in tasks else 0)
ScoringId(task, ts) == Get(task, "id", PyInt(TaskIndex(ts, task)))

\* the digits of rem/d after the point, at most left of them
RECURSIVE FracStr(_, _, _)
FracStr(rem, d, left) ==
    IF rem = 0 \/ left = 0 THEN ""
    ELSE ToString((10 * rem) \div d) \o FracStr((10 * rem) % d, d, left - 1)

\* str(x) of a float
FloatStr(a) ==
    LET whole == Abs(a.n) \div a.d
        rem == Abs(a.n) % a.d
    IN (IF a.n < 0 THEN "-" ELSE "") \o ToString(whole) \o "."
       \o (IF rem = 0 THEN "0" ELSE FracStr(rem, a.d, 17))

\* a number inside an f-string
Fmt(v) ==
    CASE v.k = "int" -> IntStr(v.v)
      [] v.k = "bool" -> IF v.v THEN "True" ELSE "False"
      [] v.k = "float" -> FloatStr(Rat(v.n, v.d))
      [] v.k = "inf" -> "inf"

\* whether arithmetic with a float takes the value
Arith(v) == IsNum(v) \/ v.k = "inf"

\* (due_date - today).days
DaysDiff(due_date, today) == due_date.v - today

\* the effort score growing with the hours: max(10.0, base * (hours + 1) / 20)
EffortScore_Proportional(base, hours) ==
    IF hours.k = "inf" THEN RInt(base)
    ELSE RMax(RInt(10), RDiv(RMul(RInt(base), RAdd(Num(hours), RInt(1))), RInt(20)))

\* max(10.0, base / (estimated_hours + 1))
EffortScore(base, hours) ==
    IF hours.k = "inf" THEN RInt(10)
    ELSE RMax(RInt(10), RDiv(RInt(base), RAdd(Num(hours), RInt(1))))

\* score_task_fastest_wins(task, tasks, today)
score_task_fastest_wins(task, ts, today) ==
    LET estimated_hours == Get(task, "estimated_hours", PyInt(8))
        importance == Get(task, "importance", PyInt(5))
        due_date == parse_date(Get(task, "due_date", PyNone))
    IN IF ~Arith(estimated_hours) \/ ~Arith(importance) THEN Raise("TypeError")
       ELSE LET effort_score == EffortScore(100, estimated_hours)
                urgency_score == RMul(calculate_urgency_score(due_date, today), Rat(3, 10))
                importance_score == RMul(Num(importance), RInt(5))
                total_score == RAdd(RAdd(effort_score, urgency_score), importance_score)
                head == <<"Fastest Wins: Low effort (", Fmt(estimated_hours), "h) prioritized">>
                tail == IF ~Truthy(due_date) THEN <<>>
                        ELSE IF DaysDiff(due_date, today) < 0
                             THEN <<", but overdue by ", IntStr(Abs(DaysDiff(due_date, today))), " days">>
                             ELSE IF DaysDiff(due_date, today) <= 3
                                  THEN <<", due in ", IntStr(DaysDiff(due_date, today)), " days">>
                                  ELSE <<>>
            IN Return(<<total_score, PyStr(head \o tail)>>)

\* score_task_high_impact(task, tasks, today)
score_task_high_impact(task, ts, today) ==
    LET importance == Get(task, "importance", PyInt(5))
        due_date == parse_date(Get(task, "due_date", PyNone))
        task_id == ScoringId(task, ts)
        blocked == count_blocked_tasks(task_id, ts)
    IN IF ~Arith(importance) \/ blocked.raised THEN Raise("TypeError")
       ELSE LET importance_score == RMul(Num(importance), RInt(20))
                blocked_count == blocked.value
                dependency_boost == RMul(RInt(blocked_count), RInt(15))
                urgency_score == RMul(calculate_urgency_score(due_date, today), Rat(4, 10))
                total_score == RAdd(RAdd(importance_score, dependency_boost), urgency_score)
                head == <<"High Impact: Importance ", Fmt(importance), "/10">>
                blocks == IF blocked_count > 0
                          THEN <<", blocks ", IntStr(blocked_count), " other task(s)">>
                          ELSE <<>>
                tail == IF Truthy(due_date) /\ DaysDiff(due_date, today) < 0
                        THEN <<", overdue by ", IntStr(Abs(DaysDiff(due_date, today))), " days">>
                        ELSE <<>>
            IN Return(<<total_score, PyStr(head \o blocks \o tail)>>)

\* score_task_deadline_driven(task, tasks, today)
score_task_deadline_driven(task, ts, today) ==
    LET due_date == parse_date(Get(task, "due_date", PyNone))
        importance == Get(task, "importance", PyInt(5))
        estimated_hours == Get(task, "estimated_hours", PyInt(8))
    IN IF ~Arith(importance) \/ ~Arith(estimated_hours) THEN Raise("TypeError")
       ELSE LET urgency_score == RMul(calculate_urgency_score(due_date, today), RInt(2))
                importance_score == RMul(Num(importance), RInt(3))
                effort_bonus == IF estimated_hours.k = "inf" THEN RInt(0)
                                ELSE RMax(RInt(0), RSub(RInt(20), Num(estimated_hours)))
                total_score == RAdd(RAdd(urgency_score, importance_score), effort_bonus)
                days_diff == DaysDiff(due_date, today)
                explanation ==
                    IF ~Truthy(due_date) THEN <<"Deadline Driven: No due date (low priority)">>
                    ELSE IF days_diff < 0
                         THEN <<"Deadline Driven: OVERDUE by ", IntStr(Abs(days_diff)), " days">>
                         ELSE IF days_diff = 0 THEN <<"Deadline Driven: Due TODAY">>
                         ELSE IF days_diff <= 3
                              THEN <<"Deadline Driven: Due in ", IntStr(days_diff), " days (urgent)">>
                              ELSE <<"Deadline Driven: Due in ", IntStr(days_diff), " days">>
            IN Return(<<total_score, PyStr(explanation)>>)

\* ", ".join(factors), each factor a sequence of parts
RECURSIVE Join(_)
Join(factors) ==
    IF Len(factors) = 0 THEN <<>>
    ELSE IF Len(factors) = 1 THEN factors[1]
    ELSE factors[1] \o <<", ">> \o Join(Tail(factors))

\* score_task_smart_balance(task, tasks, today)
score_task_smart_balance(task, ts, today) ==
    LET due_date == parse_date(Get(task, "due_date", PyNone))
        importance == Get(task, "importance", PyInt(5))
        estimated_hours == Get(task, "estimated_hours", PyInt(8))
        task_id == ScoringId(task, ts)
        blocked == count_blocked_tasks(task_id, ts)
    IN IF ~Arith(importance) \/ ~Arith(estimated_hours) \/ blocked.raised
       THEN Raise("TypeError")
       ELSE LET urgency_score == calculate_urgency_score(due_date, today)
                importance_score == RMul(Num(importance), RInt(10))
                effort_score == EffortScore(50, estimated_hours)
                blocked_count == blocked.value
                dependency_boost == RMul(RInt(blocked_count), RInt(20))
                overdue == Truthy(due_date) /\ DaysDiff(due_date, today) < 0
                soon == Truthy(due_date) /\ DaysDiff(due_date, today) <= 3
                urgency_weight == IF overdue THEN Rat(5, 2) ELSE IF soon THEN Rat(3, 2) ELSE RInt(1)
                importance_weight == IF overdue THEN RInt(1) ELSE IF soon THEN Rat(6, 5) ELSE RInt(1)
                effort_weight == IF overdue THEN Rat(3, 10) ELSE IF soon THEN Rat(1, 2) ELSE Rat(8, 10)
                total_score ==
                    RAdd(RAdd(RAdd(RMul(urgency_score, urgency_weight),
                                   RMul(importance_score, importance_weight)),
                              RMul(effort_score, effort_weight)),
                         dependency_boost)
                f1 == IF overdue
                      THEN <<(<<"OVERDUE (", IntStr(Abs(DaysDiff(due_date, today))), " days)">>)>>
                      ELSE IF soon
                           THEN <<(<<"due in ", IntStr(DaysDiff(due_date, today)), " days">>)>>
                           ELSE <<>>
                f2 == IF RLe(RInt(8), Num(importance))
                      THEN <<(<<"high importance (", Fmt(importance), "/10)">>)>>
                      ELSE <<>>
                f3 == IF estimated_hours.k # "inf" /\ RLe(Num(estimated_hours), RInt(2))
                      THEN <<(<<"quick win">>)>>
                      ELSE <<>>
                f4 == IF blocked_count > 0
                      THEN <<(<<"blocks ", IntStr(blocked_count), " task(s)">>)>>
                      ELSE <<>>
                factors == f1 \o f2 \o f3 \o f4
                explanation == IF factors # <<>> THEN <<"Smart Balance: ">> \o Join(factors)
                               ELSE <<"Smart Balance: Balanced priority">>
            IN Return(<<total_score, PyStr(explanation)>>)

-----------------------------------------------------------------------------
(* score_task and analyze_tasks *)

\* the keys of strategy_map
StrategyNames == {"fastest_wins", "high_impact", "deadline_driven", "smart_balance"}

\* strategy_map[strategy](task, tasks, today)
RunStrategy(strategy, task, ts, today) ==
    CASE strategy = "fastest_wins" -> score_task_fastest_wins(task, ts, today)
      [] strategy = "high_impact" -> score_task_high_impact(task, ts, today)
      [] strategy = "deadline_driven" -> score_task_deadline_driven(task, ts, today)
      [] strategy = "smart_balance" -> score_task_smart_balance(task, ts, today)

\* an unknown name routed to the first strategy of the map instead
Routed_FirstOfMap(strategy) ==
    IF strategy \notin StrategyNames THEN "fastest_wins" ELSE strategy

\* the strategy a name is routed to
Routed(strategy) == IF strategy \notin StrategyNames THEN "smart_balance" ELSE strategy

\* score_task routing to the strategy without validating the task first
score_task_Unvalidated(task, ts, strategy, today) ==
    RunStrategy(Routed(strategy), task, ts, today) @@ [invoked |-> Routed(strategy)]

\* score_task(task, tasks, strategy, today): (score, explanation) or the
\* exception, with the strategy function that was invoked ("" if none was)
score_task(task, ts, strategy, today) ==
    LET v == validate_task(task)
    IN IF v.raised THEN Raise(v.exc) @@ [invoked |-> ""]
       ELSE IF ~v.value[1]
            THEN Return(<<RInt(0), PyStr(<<"Invalid task: ">> \o v.value[2].v)>>)
                 @@ [invoked |-> ""]
            ELSE RunStrategy(Routed(strategy), task, ts, today)
                 @@ [invoked |-> Routed(strategy)]

Warning == " [WARNING: Part of circular dependency]"

\* the first loop of analyze_tasks from the task at position i on: a task whose
\* id, or whose first position among the tasks equal to it, is in cycle gets
\* the key _circular_warning
RECURSIVE TagFrom(_, _, _)
TagFrom(ts, i, cycle) ==
    IF i > Len(ts) THEN ts
    ELSE LET task_id == Get(ts[i], "id", PyInt(Index(ts, ts[i])))
         IN IF \E j \in 1..Len(cycle) : PyEq(cycle[j], task_id)
            THEN TagFrom([ts EXCEPT ![i] = [c \in {"_circular_warning"} |-> PyBool(TRUE)] @@ @],
                         i + 1, cycle)
            ELSE TagFrom(ts, i + 1, cycle)

\* the dict without a key
Without(d, key) == [x \in DOMAIN d \ {key} |-> d[x]]

\* task_copy with the key _circular_warning left in it
ScoredCopy_KeepsFlag(task, scored) ==
    LET added == [priority_score |-> LET c == Rat(Round2(scored[1]), 100)
                                     IN PyFloat(c.n, c.d),
                  explanation |-> scored[2]]
        task_copy == added @@ task
    IN IF Truthy(Get(task_copy, "_circular_warning", PyNone))
       THEN [task_copy EXCEPT !["explanation"] = PyStr(@.v \o <<Warning>>)]
       ELSE task_copy

\* task_copy of the second loop, for a task and its score and explanation
ScoredCopy(task, scored) ==
    LET added == [priority_score |-> LET c == Rat(Round2(scored[1]), 100)
                                     IN PyFloat(c.n, c.d),
                  explanation |-> scored[2]]
        task_copy == added @@ task
    IN IF Truthy(Get(task_copy, "_circular_warning", PyNone))
       THEN Without([task_copy EXCEPT !["explanation"] = PyStr(@.v \o <<Warning>>)],
                    "_circular_warning")
       ELSE task_copy

\* a sort that puts an element before the first one whose key is not larger,
\* so equal keys end up in reverse order
RECURSIVE SortByScore_Unstable(_)
SortByScore_Unstable(seq) ==
    IF seq = <<>> THEN <<>>
    ELSE LET n == Len(seq)
             sorted == SortByScore_Unstable(SubSeq(seq, 1, n - 1))
             x == seq[n]
             notLarger == {j \in 1..Len(sorted) :
                              RLe(Num(sorted[j]["priority_score"]), Num(x["priority_score"]))}
             at == IF notLarger = {} THEN Len(sorted) + 1
                   ELSE CHOOSE j \in notLarger : \A h \in notLarger : j <= h
         IN SubSeq(sorted, 1, at - 1) \o <<x>> \o SubSeq(sorted, at, Len(sorted))

\* list.sort(key=priority_score, reverse=True): an element goes before the
\* first one with a smaller key, so equal keys keep their order
RECURSIVE SortByScore(_)
SortByScore(seq) ==
    IF seq = <<>> THEN <<>>
    ELSE LET n == Len(seq)
             sorted == SortByScore(SubSeq(seq, 1, n - 1))
             x == seq[n]
             smaller == {j \in 1..Len(sorted) :
                            RLt(Num(sorted[j]["priority_score"]), Num(x["priority_score"]))}
             at == IF smaller = {} THEN Len(sorted) + 1
                   ELSE CHOOSE j \in smaller : \A h \in smaller : j <= h
         IN SubSeq(sorted, 1, at - 1) \o <<x>> \o SubSeq(sorted, at, Len(sorted))

\* the second loop and the sort, for the tasks as the first loop left them and
\* the outcome of score_task on each: the first exception, or the sorted copies
ScoredTasks(tagged, scores) ==
    IF \E i \in 1..Len(tagged) : scores[i].raised
    THEN Raise(scores[CHOOSE i \in 1..Len(tagged) :
                         scores[i].raised /\ \A h \in 1..(i - 1) : ~scores[h].raised].exc)
    ELSE Return(SortByScore([i \in 1..Len(tagged) |-> ScoredCopy(tagged[i], scores[i].value)]))

\* analyze_tasks once the first loop has left the tasks as tagged
AnalyzeTagged(tagged, strategy, today) ==
    [out |-> ScoredTasks(tagged, [i \in 1..Len(tagged) |->
                                     score_task(tagged[i], tagged, strategy, today)]),
     tasks |-> tagged]

\* analyze_tasks once detect_circular_dependencies has given found
AnalyzeFound(ts, found, strategy, today) ==
    IF found.raised THEN [out |-> Raise("TypeError"), tasks |-> ts]
    ELSE AnalyzeTagged(IF found.has THEN TagFrom(ts, 1, found.cycle) ELSE ts, strategy, today)

\* analyze_tasks(tasks, strategy) on the day today: the outcome, and the task
\* list as the call leaves it
analyze_tasks(ts, strategy, today) ==
    IF Len(ts) = 0 THEN [out |-> Return(<<>>), tasks |-> ts]
    ELSE AnalyzeFound(ts, detect_circular_dependencies(ts), strategy, today)

\* seq[:stop] for an int stop: a negative stop counts from the end
SliceTo(seq, stop) ==
    LET n == Len(seq)
        upper == IF stop < 0 THEN (IF stop + n < 0 THEN 0 ELSE stop + n)
                 ELSE IF stop > n THEN n ELSE stop
    IN SubSeq(seq, 1, upper)

\* analyzed[:top_n] of what analyze_tasks gave, or its exception
TopOf(analyzed, top_n) ==
    IF analyzed.out.raised THEN analyzed
    ELSE [out |-> Return(SliceTo(analyzed.out.value, top_n)), tasks |-> analyzed.tasks]

\* get_top_tasks(tasks, strategy, top_n) on the day today: the outcome, and the
\* task list as the call leaves it
get_top_tasks(ts, strategy, top_n, today) ==
    TopOf(analyze_tasks(ts, strategy, today), top_n)

-----------------------------------------------------------------------------
(* The views: a request body is a dict of JSON values, a response a status   *)
(* and a body                                                                *)

\* analyze_tasks called with the positional arguments args: the function
\* takes tasks and strategy, so any other number of them is a TypeError
CallAnalyzeTasks(args, today) ==
    IF Len(args) \notin 1..2 THEN Raise("TypeError")
    ELSE analyze_tasks(args[1], IF Len(args) = 2 THEN args[2] ELSE "smart_balance", today).out

\* get_top_tasks called with the positional arguments args and the keyword
\* arguments kwargs: the function takes tasks, strategy and top_n, so any
\* other keyword is a TypeError
CallGetTopTasks(args, kwargs, today) ==
    IF Len(args) \notin 1..3 \/ ~(DOMAIN kwargs \subseteq {"tasks", "strategy", "top_n"})
    THEN Raise("TypeError")
    ELSE get_top_tasks(IF Len(args) >= 1 THEN args[1] ELSE kwargs["tasks"],
                       IF Len(args) >= 2 THEN args[2] ELSE Get(kwargs, "strategy", "smart_balance"),
                       IF Len(args) >= 3 THEN args[3] ELSE Get(kwargs, "top_n", 3),
                       today).out

\* JsonResponse(data, status=status)
JsonResponse(data, status) == [status |-> status, body |-> data]

\* the response of the handler of any exception e but a JSON one
ServerError(exc) == JsonResponse([error |-> <<"Server error: ", exc>>], 500)

\* analyze_tasks_view once analyze_tasks has given analyzed_tasks
AnalyzedResponse(analyzed_tasks, strategy, found) ==
    IF analyzed_tasks.raised THEN ServerError(analyzed_tasks.exc)
    ELSE JsonResponse([tasks |-> analyzed_tasks.value, strategy |-> strategy,
                       count |-> Len(analyzed_tasks.value)]
                      @@ (IF found.has THEN [warning |-> found.cycle] ELSE <<>>),
                      200)

\* suggest_tasks_view once get_top_tasks has given top_tasks
SuggestResponse(top_tasks, strategy) ==
    IF top_tasks.raised THEN ServerError(top_tasks.exc)
    ELSE JsonResponse([suggestions |-> top_tasks.value, strategy |-> strategy,
                       count |-> Len(top_tasks.value)], 200)

\* analyze_tasks_view once detect_circular_dependencies has given found
AnalyzeResponse(ts, strategy, consider_weekends, found, today) ==
    IF found.raised THEN ServerError("TypeError")
    ELSE AnalyzedResponse(CallAnalyzeTasks(<<ts, strategy, consider_weekends>>, today),
                          strategy, found)

\* analyze_tasks_view(request) for a request whose body is the JSON object body
analyze_tasks_view(body, today) ==
    LET ts == Get(body, "tasks", PyList(<<>>))
        strategy == Get(body, "strategy", "smart_balance")
        consider_weekends == Get(body, "consider_weekends", TRUE)
    IN IF ts.k # "list" THEN JsonResponse([error |-> <<"Tasks must be a list">>], 400)
       ELSE AnalyzeResponse(ts.v, strategy, consider_weekends,
                            detect_circular_dependencies(ts.v), today)

\* suggest_tasks_view(request) for a POST with the JSON object body, or a GET
\* whose query parameters are body, its tasks already read from their JSON
suggest_tasks_view(method, body, today) ==
    LET strategy == Get(body, "strategy", "smart_balance")
        ts == Get(body, "tasks", PyList(<<>>))
        consider_weekends == IF method = "POST" THEN Get(body, "consider_weekends", TRUE)
                             ELSE TRUE
    IN IF ts.k # "list" THEN JsonResponse([error |-> <<"Tasks must be a list">>], 400)
       ELSE IF ts.v = <<>>
            THEN JsonResponse([error |-> <<"No tasks provided. Please provide tasks in the request.">>,
                               suggestions |-> <<>>], 400)
            ELSE SuggestResponse(CallGetTopTasks(<<ts.v, strategy>>,
                                                 [top_n |-> 3,
                                                  consider_weekends |-> consider_weekends],
                                                 today),
                                 strategy)

-----------------------------------------------------------------------------
(* Calls of detect_circular_dependencies on a task list *)

\* the longest task list handed to detect_circular_dependencies
DfsMaxTasks == 2

\* the most dependencies one of those tasks lists
DfsMaxDeps == 2

\* the ids its tasks refer to: every position of the list and one id beyond
DfsIds == {PyInt(n) : n \in 0..DfsMaxTasks}

\* sequences over S of length 0..n
SeqsUpTo(S, n) == UNION {[1..m -> S] : m \in 0..n}

\* the dependency values of its tasks: no key, or a list of up to DfsMaxDeps
\* different ids
DfsDeps ==
    {<<>>} \cup
    {[dependencies |-> PyList(d)] :
        d \in {q \in SeqsUpTo(DfsIds, DfsMaxDeps) :
                  \A i, j \in DOMAIN q : i # j => q[i] # q[j]}}

\* how the tasks of a list are given ids: none has one (positions count); each
\* has its 1-based position; only the first has one; all have the same
DfsIdSchemes == {"none", "one_based", "first", "same"}

DfsIdOf(scheme, i) ==
    CASE scheme = "none" -> <<>>
      [] scheme = "one_based" -> [id |-> PyInt(i)]
      [] scheme = "first" -> IF i = 1 THEN [id |-> PyInt(DfsMaxTasks)] ELSE <<>>
      [] scheme = "same" -> [id |-> PyInt(1)]

\* a task list handed to detect_circular_dependencies: n tasks, their ids by
\* scheme, their dependencies by deps
DfsInput(n, scheme, deps) == [i \in 1..n |-> DfsIdOf(scheme, i) @@ deps[i]]

Idle == [status |-> "idle"]
NoRet == Return(<<>>)

InitDfs ==
    /\ \E n \in 0..DfsMaxTasks, scheme \in DfsIdSchemes :
          \E deps \in [1..n -> DfsDeps] : tasks = DfsInput(n, scheme, deps)
    /\ pc = "call"
    /\ op = "none"
    /\ arg = <<>>
    /\ dfs = Idle
    /\ ret = NoRet

\* the outcome of the search once it has stopped
DfsOutcome(s) ==
    IF s.status = "raised" THEN Raise("TypeError") ELSE Return(<<s.has, s.cycle>>)

\* what a step into DFS state s leaves in pc and ret
Landed(s) ==
    /\ dfs' = s
    /\ pc' = IF s.status = "running" THEN "dfs" ELSE "done"
    /\ ret' = IF s.status = "running" THEN ret ELSE DfsOutcome(s)
    /\ UNCHANGED <<tasks, op, arg>>

\* detect_circular_dependencies(tasks) is called: the graph is built
DetectCall ==
    /\ pc = "call"
    /\ op' = "detect_circular_dependencies"
    /\ arg' = [tasks |-> tasks]
    /\ dfs' = DfsStart(tasks)
    /\ pc' = IF dfs'.status = "running" THEN "dfs" ELSE "done"
    /\ ret' = IF dfs'.status = "running" THEN ret ELSE DfsOutcome(dfs')
    /\ UNCHANGED tasks

DoRootCall == pc = "dfs" /\ CanRootCall(dfs) /\ Landed(RootCall(dfs))
DoRootSkip == pc = "dfs" /\ CanRootSkip(dfs) /\ Landed(RootSkip(dfs))
DoRootsDone == pc = "dfs" /\ CanRootsDone(dfs) /\ Landed(RootsDone(dfs))
DoDescend == pc = "dfs" /\ CanDescend(dfs) /\ Landed(Descend(dfs))
DoFoundCycle == pc = "dfs" /\ CanFoundCycle(dfs) /\ Landed(FoundCycle(dfs))
DoSkipNeighbor == pc = "dfs" /\ CanSkipNeighbor(dfs) /\ Landed(SkipNeighbor(dfs))
DoBacktrack == pc = "dfs" /\ CanBacktrack(dfs) /\ Landed(Backtrack(dfs))

NextDfs ==
    \/ DetectCall
    \/ DoRootCall
    \/ DoRootSkip
    \/ DoRootsDone
    \/ DoDescend
    \/ DoFoundCycle
    \/ DoSkipNeighbor
    \/ DoBacktrack

SpecDfs == InitDfs /\ [][NextDfs]_vars /\ WF_vars(NextDfs)

-----------------------------------------------------------------------------
(* Calls of validate_task and score_task *)

\* the values a caller may give each field (<<>>: the key is absent)
TitleValues == {<<>>, [title |-> PyStr(<<"T">>)], [title |-> PyNone]}

ImportanceValues ==
    {<<>>} \cup
    {[importance |-> v] :
        v \in {PyInt(1), PyInt(10), PyInt(0), PyInt(11), PyStr(<<"7">>), PyStr(<<"x">>),
               PyNone, PyFloat(19, 2), PyFloat(1, 2), PyBool(TRUE), PyInf}}

HoursValues ==
    {<<>>} \cup
    {[estimated_hours |-> v] :
        v \in {PyInt(0), PyInt(1), PyInt(16), PyInt(-1), PyStr(<<"3">>), PyStr(<<"-", "2">>),
               PyStr(<<"x">>), PyNone, PyFloat(3, 2), PyInf, PyHuge}}

\* the day of the calls, and the next
Todays == {Ordinal(2025, 6, 15), Ordinal(2025, 6, 16)}

DueDateValues ==
    {<<>>} \cup
    {[due_date |-> v] :
        v \in {PyNone, PyStr(<<>>),
               PyStr(<<"2", "0", "2", "5", "-", "0", "6", "-", "1", "5">>),
               PyStr(<<"2", "0", "2", "5", "-", "0", "6", "-", "1", "8">>),
               PyStr(<<"2", "0", "2", "5", "-", "6", "-", "5">>),
               PyStr(<<"2", "0", "2", "5", "-", "1", "2", "-", "0", "1">>),
               PyStr(<<"2", "0", "2", "5", "-", "0", "2", "-", "3", "0">>),
               PyStr(<<"i", "n", "v", "a", "l", "i", "d", "-", "d", "a", "t", "e">>),
               PyDate(Ordinal(2025, 6, 1)), PyInt(5)}}

DependenciesValues ==
    {<<>>} \cup
    {[dependencies |-> v] :
        v \in {PyList(<<>>), PyList(<<PyInt(1)>>), PyNone, PyStr(<<"a", "b">>)}}

\* the task lists the scored task may be part of: alone, or followed by a task
\* that depends on it, or by one whose dependencies are a str
OtherTasks ==
    {<<>>,
     <<[title |-> PyStr(<<"U">>), dependencies |-> PyList(<<PyInt(0), PyInt(0)>>)]>>,
     <<[title |-> PyStr(<<"U">>), dependencies |-> PyStr(<<"a", "b">>)]>>}

\* the strategy names a caller may give
StrategyInputs == StrategyNames \cup {"invalid_strategy", ""}

InitScore ==
    /\ \E t \in TitleValues, i \in ImportanceValues, h \in HoursValues,
          d \in DueDateValues, deps \in DependenciesValues, others \in OtherTasks :
          tasks = <<t @@ i @@ h @@ d @@ deps>> \o others
    /\ pc = "call"
    /\ op = "none"
    /\ arg = <<>>
    /\ dfs = Idle
    /\ ret = NoRet

\* validate_task(task) is called on the first task of the list
ValidateTask ==
    /\ pc = "call"
    /\ op' = "validate_task"
    /\ arg' = [task |-> tasks[1]]
    /\ ret' = validate_task(tasks[1])
    /\ pc' = "done"
    /\ UNCHANGED <<tasks, dfs>>

\* score_task(task, tasks, strategy, today) is called on the first task
ScoreTask ==
    /\ pc = "call"
    /\ \E strategy \in StrategyInputs, today \in Todays :
          /\ arg' = [task |-> tasks[1], tasks |-> tasks, strategy |-> strategy, today |-> today]
          /\ ret' = score_task(tasks[1], tasks, strategy, today)
    /\ op' = "score_task"
    /\ pc' = "done"
    /\ UNCHANGED <<tasks, dfs>>

NextScore ==
    \/ ValidateTask
    \/ ScoreTask

SpecScore == InitScore /\ [][NextScore]_vars

-----------------------------------------------------------------------------
(* Calls of analyze_tasks *)

\* the longest task list handed to analyze_tasks
AnalyzeMaxTasks == 2

\* the id of a task of the list: none, or 1
AnalyzeIds == {<<>>, [id |-> PyInt(1)]}

\* its dependencies: none, the first or the second position, null, a str
AnalyzeDeps ==
    {<<>>} \cup
    {[dependencies |-> v] :
        v \in {PyList(<<PyInt(0)>>), PyList(<<PyInt(1)>>), PyNone, PyStr(<<"a", "b">>)}}

\* its other fields: a title alone, no title, every field of a task that is
\* overdue, an importance that is a numeral
AnalyzeBodies ==
    {[title |-> PyStr(<<"a">>)],
     [importance |-> PyInt(5)],
     [title |-> PyStr(<<"c">>), importance |-> PyInt(9), estimated_hours |-> PyFloat(3, 2),
      due_date |-> PyStr(<<"2", "0", "2", "5", "-", "6", "-", "5">>)],
     [title |-> PyStr(<<"d">>), importance |-> PyStr(<<"7">>)]}

AnalyzeTaskValues == {i @@ d @@ b : i \in AnalyzeIds, d \in AnalyzeDeps, b \in AnalyzeBodies}

\* the strategy names given to analyze_tasks
AnalyzeStrategies == StrategyNames \cup {"invalid_strategy"}

\* date.today() at the call
AnalyzeToday == Ordinal(2025, 6, 15)

InitAnalyze ==
    /\ \E n \in 0..AnalyzeMaxTasks : tasks \in [1..n -> AnalyzeTaskValues]
    /\ pc = "call"
    /\ op = "none"
    /\ arg = <<>>
    /\ dfs = Idle
    /\ ret = NoRet

\* analyze_tasks(tasks, strategy) is called: the caller's list keeps the keys
\* the call set in its tasks
AnalyzeTasks ==
    /\ pc = "call"
    /\ \E strategy \in AnalyzeStrategies :
          LET r == analyze_tasks(tasks, strategy, AnalyzeToday)
          IN /\ arg' = [tasks |-> tasks, strategy |-> strategy, today |-> AnalyzeToday]
             /\ ret' = r.out
             /\ tasks' = r.tasks
    /\ op' = "analyze_tasks"
    /\ pc' = "done"
    /\ UNCHANGED dfs

NextAnalyze == AnalyzeTasks

SpecAnalyze == InitAnalyze /\ [][NextAnalyze]_vars

-----------------------------------------------------------------------------
(* Calls of calculate_urgency_score *)

\* the most days a due date lies before or after the day of the call
UrgencyMaxDays == 45

\* the due dates: none, or a date within UrgencyMaxDays of today
UrgencyDueDates(today) ==
    {PyNone} \cup {PyDate(today + k) : k \in (0 - UrgencyMaxDays)..UrgencyMaxDays}

InitUrgency ==
    /\ tasks = <<>>
    /\ pc = "call"
    /\ op = "none"
    /\ \E today \in Todays : \E due_date \in UrgencyDueDates(today) :
          arg = [due_date |-> due_date, today |-> today]
    /\ dfs = Idle
    /\ ret = NoRet

\* calculate_urgency_score(due_date, today) is called
CalculateUrgency ==
    /\ pc = "call"
    /\ op' = "calculate_urgency_score"
    /\ ret' = Return(calculate_urgency_score(arg.due_date, arg.today))
    /\ pc' = "done"
    /\ UNCHANGED <<tasks, arg, dfs>>

NextUrgency == CalculateUrgency

SpecUrgency == InitUrgency /\ [][NextUrgency]_vars

-----------------------------------------------------------------------------
(* Calls of score_task on a task at any position of the list *)

\* score_task(tasks[position], tasks, strategy, today) is called
ScoreTaskAt ==
    /\ pc = "call"
    /\ \E position \in 1..Len(tasks), strategy \in AnalyzeStrategies :
          /\ arg' = [task |-> tasks[position], tasks |-> tasks, strategy |-> strategy,
                     today |-> AnalyzeToday, position |-> position]
          /\ ret' = score_task(tasks[position], tasks, strategy, AnalyzeToday)
    /\ op' = "score_task"
    /\ pc' = "done"
    /\ UNCHANGED <<tasks, dfs>>

NextScoreAt == ScoreTaskAt

SpecScoreAt == InitAnalyze /\ [][NextScoreAt]_vars

-----------------------------------------------------------------------------
(* Calls of analyze_tasks one after the other on the same task records, the  *)
(* caller editing their dependencies in between                              *)

\* the longest task list analyzed again and again
RepeatMaxTasks == 2

\* the dependencies the caller gives a task: no key, or a list of one position
RepeatDeps ==
    {<<>>} \cup {[dependencies |-> PyList(<<PyInt(n)>>)] : n \in 0..(RepeatMaxTasks - 1)}

RepeatTaskValues ==
    {i @@ d @@ [title |-> PyStr(<<"a">>)] : i \in AnalyzeIds, d \in RepeatDeps}

InitRepeat ==
    /\ \E n \in 1..RepeatMaxTasks : tasks \in [1..n -> RepeatTaskValues]
    /\ pc = "call"
    /\ op = "none"
    /\ arg = <<>>
    /\ dfs = Idle
    /\ ret = NoRet

\* analyze_tasks(tasks, strategy) is called, for the first time or again
AnalyzeAgain ==
    /\ \E strategy \in AnalyzeStrategies :
          LET r == analyze_tasks(tasks, strategy, AnalyzeToday)
          IN /\ arg' = [tasks |-> tasks, strategy |-> strategy, today |-> AnalyzeToday]
             /\ ret' = r.out
             /\ tasks' = r.tasks
    /\ op' = "analyze_tasks"
    /\ pc' = "done"
    /\ UNCHANGED dfs

\* between two calls the caller gives one of its records other dependencies
EditDependencies ==
    /\ pc = "done"
    /\ \E i \in 1..Len(tasks), d \in RepeatDeps :
          /\ d # [x \in DOMAIN tasks[i] \cap {"dependencies"} |-> tasks[i][x]]
          /\ tasks' = [tasks EXCEPT ![i] = d @@ Without(@, "dependencies")]
    /\ pc' = "call"
    /\ UNCHANGED <<op, arg, dfs, ret>>

NextRepeat ==
    \/ AnalyzeAgain
    \/ EditDependencies

SpecRepeat == InitRepeat /\ [][NextRepeat]_vars

-----------------------------------------------------------------------------
(* Calls of count_blocked_tasks *)

\* the longest task list handed to count_blocked_tasks
BlockedMaxTasks == 2

\* the ids asked about and listed as dependencies: every position and one beyond
BlockedIds == {PyInt(n) : n \in 0..BlockedMaxTasks}

\* the dependencies of a task: no key, or a list of up to two ids, the same id
\* twice included
BlockedDeps == {<<>>} \cup {[dependencies |-> PyList(d)] : d \in SeqsUpTo(BlockedIds, 2)}

InitBlocked ==
    /\ \E n \in 1..BlockedMaxTasks, scheme \in DfsIdSchemes :
          \E deps \in [1..n -> BlockedDeps] : tasks = DfsInput(n, scheme, deps)
    /\ pc = "call"
    /\ op = "none"
    /\ arg = <<>>
    /\ dfs = Idle
    /\ ret = NoRet

\* count_blocked_tasks(task_id, tasks) is called
CountBlocked ==
    /\ pc = "call"
    /\ \E task_id \in BlockedIds :
          /\ arg' = [task_id |-> task_id, tasks |-> tasks]
          /\ ret' = count_blocked_tasks(task_id, tasks)
    /\ op' = "count_blocked_tasks"
    /\ pc' = "done"
    /\ UNCHANGED <<tasks, dfs>>

NextBlocked == CountBlocked

SpecBlocked == InitBlocked /\ [][NextBlocked]_vars

-----------------------------------------------------------------------------
(* Claims about detect_circular_dependencies *)

\* the dependency graph of a claim: an edge from a task's effective id to each
\* of its dependency ids that is the effective id of a task of the list
DepEdge(ts, a, b) ==
    \E i \in 1..Len(ts) :
        /\ EffId(ts, i) = a
        /\ InSeq(b, Elems(DepsOf(ts[i])))
        /\ b \in TaskIdKeys(ts)

\* the ids reached from the ids of S in one or more edges
RECURSIVE ReachedFrom(_, _, _)
ReachedFrom(ts, S, seen) ==
    LET next == {b \in TaskIdKeys(ts) : \E a \in S : DepEdge(ts, a, b)} \ seen
    IN IF next = {} THEN seen ELSE ReachedFrom(ts, next, seen \cup next)

HasDirectedCycle(ts) ==
    \E a \in TaskIdKeys(ts) : a \in ReachedFrom(ts, {a}, {})

UniqueIds(ts) ==
    \A i, j \in 1..Len(ts) : i # j => EffId(ts, i) # EffId(ts, j)

DetectDone == pc = "done" /\ op = "detect_circular_dependencies"

\* C1: on a task list with unique effective ids, detect_circular_dependencies
\* returns (False, []) exactly when the dependency graph has no directed cycle,
\* and otherwise True with a non-empty path.
C1_DetectIffCycle ==
    (DetectDone /\ UniqueIds(arg.tasks)) =>
        /\ ~ret.raised
        /\ (ret.value = <<FALSE, <<>>>>) <=> ~HasDirectedCycle(arg.tasks)
        /\ HasDirectedCycle(arg.tasks) => (ret.value[1] = TRUE /\ Len(ret.value[2]) > 0)

\* a cycle was reported on a list with unique ids, one of whose dependencies
\* dangles, after the search had left a node that is on no cycle
C1_Witness ==
    /\ DetectDone /\ UniqueIds(arg.tasks)
    /\ ret.value[1] = TRUE
    /\ \E i \in 1..Len(arg.tasks) :
          \E j \in 1..Len(Elems(DepsOf(arg.tasks[i]))) :
              Elems(DepsOf(arg.tasks[i]))[j] \notin TaskIdKeys(arg.tasks)
    /\ \E v \in dfs.visited : v \notin ReachedFrom(arg.tasks, {v}, {})

\* no cycle was reported on a list with two tasks and an edge between them
C1_WitnessAcyclic ==
    /\ DetectDone /\ UniqueIds(arg.tasks)
    /\ ret.value = <<FALSE, <<>>>>
    /\ \E a, b \in TaskIdKeys(arg.tasks) : a # b /\ DepEdge(arg.tasks, a, b)

\* C2: a reported path is a cycle of the dependency graph: it ends with the id
\* it starts with, each id lists the next among its dependencies, and the ids
\* before the last are pairwise different (so no lead-in of the search's path
\* comes before the repeated id).
C2_PathIsCycle ==
    (DetectDone /\ ~ret.raised /\ ret.value[1] = TRUE) =>
        LET c == ret.value[2]
        IN /\ Len(c) >= 2
           /\ c[1] = c[Len(c)]
           /\ \A j \in 1..(Len(c) - 1) : DepEdge(arg.tasks, c[j], c[j + 1])
           /\ \A i, j \in 1..(Len(c) - 1) : i # j => c[i] # c[j]

\* a cycle was reported whose first id is not the node the search started from:
\* the path of the search had a lead-in
C2_Witness ==
    /\ DetectDone /\ ~ret.raised /\ ret.value[1] = TRUE
    /\ Len(dfs.path) > Len(ret.value[2]) - 1
    /\ dfs.path[1] # ret.value[2][1]

\* C3: detect_circular_dependencies terminates on every task list (each call
\* reaches its end), and a task found to list its own id is reported as the
\* cycle [x, x].
C3_Terminates ==
    /\ <>(pc = "done")
    /\ []((DetectDone /\ ret.value[1] = TRUE /\ Neighbor(dfs) = Top(dfs).node)
            => ret.value[2] = <<Top(dfs).node, Top(dfs).node>>)

\* the search returned a cycle on a list with a self-loop and a second cycle
\* through the same node
C3_Witness ==
    /\ DetectDone
    /\ \E a, b \in TaskIdKeys(arg.tasks) :
          /\ a # b
          /\ DepEdge(arg.tasks, a, a)
          /\ DepEdge(arg.tasks, a, b) /\ DepEdge(arg.tasks, b, a)
    /\ ret.value[1] = TRUE

-----------------------------------------------------------------------------
(* Claims about score_task and validate_task *)

ScoreDone == pc = "done" /\ op = "score_task"
ValidateDone == pc = "done" /\ op = "validate_task"

\* C8: for a task that fails validate_task with error e, score_task returns
\* exactly (0.0, "Invalid task: " + e), whatever the strategy name and the day,
\* invokes no strategy and raises nothing.
C8_InvalidScoresZero ==
    (ScoreDone /\ ~validate_task(arg.task).raised /\ ~validate_task(arg.task).value[1]) =>
        /\ ~ret.raised
        /\ ret.invoked = ""
        /\ ret.value[1] = RInt(0)
        /\ ret.value[2] = PyStr(<<"Invalid task: ">> \o validate_task(arg.task).value[2].v)

\* a task with a title and an importance out of range was scored with a
\* strategy that would have raised on its other fields
C8_Witness ==
    /\ ScoreDone
    /\ "title" \in DOMAIN arg.task
    /\ "importance" \in DOMAIN arg.task /\ arg.task["importance"] = PyInt(11)
    /\ "estimated_hours" \in DOMAIN arg.task /\ arg.task["estimated_hours"].k = "str"
    /\ arg.strategy = "fastest_wins"
    /\ ret.value[2].v[1] = "Invalid task: "

\* C9: with a strategy name that is none of the four, score_task gives what it
\* gives with 'smart_balance' for the same task, task list and day: the same
\* score and explanation, or the same exception.
C9_UnknownIsSmartBalance ==
    (ScoreDone /\ arg.strategy \notin StrategyNames) =>
        LET smart == score_task(arg.task, arg.tasks, "smart_balance", arg.today)
        IN /\ ret.raised = smart.raised
           /\ ret.exc = smart.exc
           /\ ret.invoked = smart.invoked
           /\ ~ret.raised => ret.value = smart.value

\* a valid task that blocks another was scored under an unknown name
C9_Witness ==
    /\ ScoreDone /\ arg.strategy = "invalid_strategy"
    /\ ~ret.raised /\ ret.invoked = "smart_balance"
    /\ ret.value[2].v[1] = "Smart Balance: "
    /\ RLt(RInt(0), ret.value[1])
    /\ count_blocked_tasks(PyInt(0), arg.tasks) = Return(1)

\* what C10 calls coercible to an integer, numeric, and parseable
CoercibleToInt(v) ==
    \/ v.k \in {"int", "bool", "float", "hugeint"}
    \/ v.k = "str" /\ ~IntOfStr(v.v).raised
InRange1To10(v) == ~IntOf(v).raised /\ ~IsHuge(IntOf(v)) /\ IntOf(v).value \in 1..10
Numeric(v) ==
    \/ v.k \in {"int", "bool", "float", "inf", "hugeint"}
    \/ v.k = "str" /\ ~FloatOfStr(v.v).raised
Negative(v) ==
    \/ IsNum(v) /\ RLt(Num(v), RInt(0))
    \/ v.k = "str" /\ ~FloatOfStr(v.v).raised /\ RLt(FloatOfStr(v.v).value, RInt(0))

\* the failures C10 lists
C10_Fails(task) ==
    \/ "title" \notin DOMAIN task
    \/ "importance" \in DOMAIN task
         /\ (~CoercibleToInt(task["importance"]) \/ ~InRange1To10(task["importance"]))
    \/ "estimated_hours" \in DOMAIN task
         /\ (~Numeric(task["estimated_hours"]) \/ Negative(task["estimated_hours"]))
    \/ "due_date" \in DOMAIN task /\ task["due_date"].k = "str"
         /\ task["due_date"].v # <<>> /\ Strptime(task["due_date"].v).raised
    \/ "dependencies" \in DOMAIN task /\ task["dependencies"].k # "list"

\* C10: validate_task returns (False, message) exactly when the title is
\* missing, or importance is present and not coercible to an integer or outside
\* [1,10], or estimated_hours is present and non-numeric or negative, or
\* due_date is a non-empty string that does not parse as YYYY-MM-DD, or
\* dependencies is present and not a list; otherwise it returns (True, None).
C10_ValidateIff ==
    ValidateDone =>
        /\ ~ret.raised
        /\ C10_Fails(arg.task) => (ret.value[1] = FALSE /\ ret.value[2].k = "str")
        /\ ~C10_Fails(arg.task) => ret.value = <<TRUE, PyNone>>

-----------------------------------------------------------------------------
(* Claims about analyze_tasks *)

AnalyzeDone == pc = "done" /\ op = "analyze_tasks"
AnalyzeReturned == AnalyzeDone /\ ~ret.raised

\* the ways of naming, for each place of a result of n records, the input
\* position its record comes from
Origins(n) == {p \in [1..n -> 1..n] : \A i, j \in 1..n : i # j => p[i] # p[j]}

\* a scored record without the two keys analyze_tasks adds
Original(o) == Without(Without(o, "priority_score"), "explanation")

\* p names, for each record of the result, an input record with its fields
FromInput(p) == \A k \in 1..Len(ret.value) : Original(ret.value[k]) = arg.tasks[p[k]]

Score(o) == Num(o["priority_score"])

\* C4: the list analyze_tasks returns is in descending order of priority_score,
\* and records of equal priority_score are in the order of their input records.
C4_SortedStable ==
    AnalyzeReturned =>
        /\ Len(ret.value) = Len(arg.tasks)
        /\ \E p \in Origins(Len(ret.value)) :
              /\ FromInput(p)
              /\ \A k, l \in 1..Len(ret.value) :
                    k < l => \/ RLt(Score(ret.value[l]), Score(ret.value[k]))
                             \/ Score(ret.value[l]) = Score(ret.value[k]) /\ p[k] < p[l]

\* a record was moved in front of an earlier one, and two different records of
\* equal score were returned
C4_Witness ==
    /\ AnalyzeReturned /\ Len(ret.value) = 2
    /\ Original(ret.value[1]) = arg.tasks[2]
    /\ Original(ret.value[1]) # Original(ret.value[2])
    /\ RLt(Score(ret.value[2]), Score(ret.value[1]))

C4_WitnessTie ==
    /\ AnalyzeReturned /\ Len(ret.value) = 2
    /\ Original(ret.value[1]) # Original(ret.value[2])
    /\ Score(ret.value[1]) = Score(ret.value[2])
    /\ RLt(RInt(0), Score(ret.value[1]))

C5_WitnessEmpty == AnalyzeReturned /\ arg.tasks = <<>> /\ ret.value = <<>>

\* the effective id of the task at position i (from 1) of the input
EffectiveId(ts, i) == Get(ts[i], "id", PyInt(i - 1))

\* the cycle path detect_circular_dependencies gives for the list
CyclePath(ts) ==
    IF detect_circular_dependencies(ts).has THEN detect_circular_dependencies(ts).cycle ELSE <<>>

Warned(o) == o["explanation"].v[Len(o["explanation"].v)] = Warning

\* C6: in the result of analyze_tasks a record's explanation ends with the
\* cycle warning exactly if the record's effective id (its id, else its 0-based
\* input position) is on the cycle path detect_circular_dependencies returns
\* for the list.
C6_WarnedIffOnCycle ==
    AnalyzeReturned =>
        \E p \in Origins(Len(ret.value)) :
           /\ FromInput(p)
           /\ \A k \in 1..Len(ret.value) :
                 Warned(ret.value[k]) <=>
                    \E j \in 1..Len(CyclePath(arg.tasks)) :
                       PyEq(CyclePath(arg.tasks)[j], EffectiveId(arg.tasks, p[k]))

\* C7: analyze_tasks raises nothing whatever the fields of a task hold: it
\* returns a record for every input, with score 0 and the validation error for
\* a task that fails validate_task.
C7_NothingRaised ==
    AnalyzeDone =>
        /\ ~ret.raised
        /\ Len(ret.value) = Len(arg.tasks)
        /\ \E p \in Origins(Len(ret.value)) :
              /\ FromInput(p)
              /\ \A k \in 1..Len(ret.value) :
                    (~validate_task(arg.tasks[p[k]]).value[1]) =>
                        /\ Score(ret.value[k]) = RInt(0)
                        /\ ret.value[k]["explanation"].v[1] = "Invalid task: "

-----------------------------------------------------------------------------
(* Claims about the order of validate_task's checks and about null hours *)

\* the five checks, each as C10 and C11 state it
FailsTitle(task) == "title" \notin DOMAIN task
FailsImportance(task) ==
    "importance" \in DOMAIN task
       /\ (~CoercibleToInt(task["importance"]) \/ ~InRange1To10(task["importance"]))
FailsHours(task) ==
    "estimated_hours" \in DOMAIN task
       /\ (~Numeric(task["estimated_hours"]) \/ Negative(task["estimated_hours"]))
FailsDueDate(task) ==
    "due_date" \in DOMAIN task /\ task["due_date"].k = "str"
       /\ task["due_date"].v # <<>> /\ Strptime(task["due_date"].v).raised
FailsDependencies(task) == "dependencies" \in DOMAIN task /\ task["dependencies"].k # "list"

\* how many of the checks a task violates
FailedChecks(task) ==
    (IF FailsTitle(task) THEN 1 ELSE 0) + (IF FailsImportance(task) THEN 1 ELSE 0)
    + (IF FailsHours(task) THEN 1 ELSE 0) + (IF FailsDueDate(task) THEN 1 ELSE 0)
    + (IF FailsDependencies(task) THEN 1 ELSE 0)

\* the earliest check a task violates, in the order title, importance,
\* estimated_hours, due_date, dependencies
EarliestFailing(task) ==
    IF FailsTitle(task) THEN "title"
    ELSE IF FailsImportance(task) THEN "importance"
    ELSE IF FailsHours(task) THEN "estimated_hours"
    ELSE IF FailsDueDate(task) THEN "due_date"
    ELSE IF FailsDependencies(task) THEN "dependencies"
    ELSE "none"

\* the check a returned message is the message of
CheckNamed(message) ==
    CASE message.v[1] = "Missing required field: " /\ message.v[2] = "title" -> "title"
      [] message.v[1] \in {"Importance must be an integer",
                           "Importance must be between 1 and 10, got "} -> "importance"
      [] message.v[1] \in {"Estimated hours must be a number",
                           "Estimated hours must be non-negative"} -> "estimated_hours"
      [] message.v[1] = "Invalid date format: " -> "due_date"
      [] message.v[1] = "Dependencies must be a list" -> "dependencies"
      [] OTHER -> "unknown"

\* C11: the message validate_task returns for a record that violates one or
\* several checks is the message of the earliest violated check, in the order
\* title, importance, estimated_hours, due_date, dependencies.
C11_EarliestCheckReported ==
    (ValidateDone /\ ~ret.raised /\ FailedChecks(arg.task) >= 1) =>
        /\ ret.value[1] = FALSE
        /\ CheckNamed(ret.value[2]) = EarliestFailing(arg.task)

\* a record with a title that violates the checks of importance, of due_date
\* and of dependencies got the message of importance
C11_Witness ==
    /\ ValidateDone /\ ~ret.raised
    /\ ~FailsTitle(arg.task) /\ FailsImportance(arg.task) /\ ~FailsHours(arg.task)
    /\ FailsDueDate(arg.task) /\ FailsDependencies(arg.task)
    /\ CheckNamed(ret.value[2]) = "importance"

\* a record that violates all five got the message of title
C11_WitnessAll ==
    /\ ValidateDone /\ FailedChecks(arg.task) = 5
    /\ CheckNamed(ret.value[2]) = "title"

\* the task without its estimated_hours
NoHours(task) == Without(task, "estimated_hours")

\* C12: a record whose estimated_hours is null is legal: if the record without
\* that key passes validate_task, so does the record, and score_task gives it
\* the score of the record without the key (hours taken as 8).
C12_NullHoursLegal ==
    (/\ pc = "done"
     /\ "estimated_hours" \in DOMAIN arg.task /\ arg.task["estimated_hours"] = PyNone
     /\ validate_task(NoHours(arg.task)) = Return(<<TRUE, PyNone>>)) =>
        /\ op = "validate_task" => ret = Return(<<TRUE, PyNone>>)
        /\ (op = "score_task"
              /\ ~score_task(NoHours(arg.task), arg.tasks, arg.strategy, arg.today).raised) =>
              /\ ~ret.raised
              /\ ret.value[1] =
                    score_task(NoHours(arg.task), arg.tasks, arg.strategy, arg.today).value[1]

-----------------------------------------------------------------------------
(* Claims about calculate_urgency_score *)

UrgencyDone == pc = "done" /\ op = "calculate_urgency_score"

\* the days from today to the due date of the call (negative when overdue)
DaysAhead == arg.due_date.v - arg.today

Overdue == UrgencyDone /\ arg.due_date # PyNone /\ DaysAhead < 0

C13_WitnessBelowCap == Overdue /\ DaysAhead = -3 /\ ret.value = Rat(215, 2)

\* the urgency C14 gives a due date that is not overdue, by the days left
UrgencyBand(days) ==
    CASE days = 0 -> 100
      [] days = 1 -> 90
      [] days \in 2..3 -> 75
      [] days \in 4..7 -> 60
      [] days \in 8..14 -> 45
      [] days \in 15..30 -> 30
      [] days > 30 -> 15

C14_WitnessNone == UrgencyDone /\ arg.due_date = PyNone /\ ret.value = RInt(30)

-----------------------------------------------------------------------------
(* Claims about the scores of the strategies *)

\* the hours and the importance a documented sum takes for a task
DocHours(task) == Get(task, "estimated_hours", PyInt(8))
DocImportance(task) == Num(Get(task, "importance", PyInt(5)))

\* max(10, base/(hours+1)) and max(0, 20-hours), for hours that may be infinite
DocEffort(base, h) ==
    IF h.k = "inf" THEN RInt(10) ELSE RMax(RInt(10), RDiv(RInt(base), RAdd(Num(h), RInt(1))))
DocSlack(h) == IF h.k = "inf" THEN RInt(0) ELSE RMax(RInt(0), RSub(RInt(20), Num(h)))

\* the due date of a task as a date, whether the record holds a date or a
\* YYYY-MM-DD string, or None
DocDue(task) ==
    IF Get(task, "due_date", PyNone).k = "date" THEN Get(task, "due_date", PyNone)
    ELSE parse_date(Get(task, "due_date", PyNone))

DocUrgency(task, today) == calculate_urgency_score(DocDue(task), today)

\* count_blocked_tasks of the effective id of the task at position i
DocBlocked(ts, i) == RInt(count_blocked_tasks(EffectiveId(ts, i), ts).value)

\* (wu, wi, we) of smart_balance
DocWeights(task, today) ==
    IF DocDue(task) # PyNone /\ DocDue(task).v - today < 0
    THEN <<Rat(5, 2), RInt(1), Rat(3, 10)>>
    ELSE IF DocDue(task) # PyNone /\ DocDue(task).v - today \in 0..3
         THEN <<Rat(3, 2), Rat(6, 5), Rat(1, 2)>>
         ELSE <<RInt(1), RInt(1), Rat(4, 5)>>

RSum(seq) == IF Len(seq) = 3 THEN RAdd(RAdd(seq[1], seq[2]), seq[3])
             ELSE RAdd(RAdd(RAdd(seq[1], seq[2]), seq[3]), seq[4])

\* the documented sum of a strategy for the task at position i of ts
DocumentedSum(strategy, ts, i, today) ==
    CASE strategy = "fastest_wins" ->
            RSum(<<DocEffort(100, DocHours(ts[i])),
                   RMul(Rat(3, 10), DocUrgency(ts[i], today)),
                   RMul(RInt(5), DocImportance(ts[i]))>>)
      [] strategy = "high_impact" ->
            RSum(<<RMul(RInt(20), DocImportance(ts[i])),
                   RMul(RInt(15), DocBlocked(ts, i)),
                   RMul(Rat(4, 10), DocUrgency(ts[i], today))>>)
      [] strategy = "deadline_driven" ->
            RSum(<<RMul(RInt(2), DocUrgency(ts[i], today)),
                   RMul(RInt(3), DocImportance(ts[i])),
                   DocSlack(DocHours(ts[i]))>>)
      [] strategy = "smart_balance" ->
            RSum(<<RMul(DocWeights(ts[i], today)[1], DocUrgency(ts[i], today)),
                   RMul(DocWeights(ts[i], today)[2], RMul(RInt(10), DocImportance(ts[i]))),
                   RMul(DocWeights(ts[i], today)[3], DocEffort(50, DocHours(ts[i]))),
                   RMul(RInt(20), DocBlocked(ts, i))>>)

\* score_task returned the score of a strategy for a task that passes
\* validate_task
Scored == ScoreDone /\ ~ret.raised /\ ret.invoked # ""

\* C15: the score a strategy returns for a valid task is the documented sum of
\* that strategy, with hours 8 and importance 5 when absent, the urgency of the
\* task's due date and the blocked count of its effective id.
C15_DocumentedSums ==
    Scored => ret.value[1] = DocumentedSum(ret.invoked, arg.tasks, 1, arg.today)

\* a number from 1 to 10, and a number that is not negative
ImportanceInRange(v) == IsNum(v) /\ RLe(RInt(1), Num(v)) /\ RLe(Num(v), RInt(10))
NonNegativeHours(v) == v.k = "inf" \/ (IsNum(v) /\ RLe(RInt(0), Num(v)))

\* C16: for a valid task whose due date, given as a date or as a YYYY-MM-DD
\* string, lies before today, with an importance from 1 to 10 and hours that
\* are not negative, score_task with 'deadline_driven' returns more than 100.
C16_OverdueAbove100 ==
    (/\ ScoreDone /\ arg.strategy = "deadline_driven"
     /\ validate_task(arg.task) = Return(<<TRUE, PyNone>>)
     /\ DocDue(arg.task) # PyNone /\ DocDue(arg.task).v < arg.today
     /\ ImportanceInRange(Get(arg.task, "importance", PyInt(5)))
     /\ NonNegativeHours(DocHours(arg.task))) =>
        /\ ~ret.raised
        /\ RLt(RInt(100), ret.value[1])

-----------------------------------------------------------------------------
(* Claims about count_blocked_tasks and the ids *)

BlockedDone == pc = "done" /\ op = "count_blocked_tasks"

\* the positions of the tasks other than the task with id task_id whose
\* dependencies include task_id
OtherDependents(ts, task_id) ==
    {j \in 1..Len(ts) :
        /\ ~PyEq(EffectiveId(ts, j), task_id)
        /\ \E h \in 1..Len(DepsOf(ts[j]).v) : PyEq(DepsOf(ts[j]).v[h], task_id)}

\* C17: count_blocked_tasks(id, tasks) is the number of other tasks whose
\* dependencies include id: a task is counted once however often it lists id,
\* and a task that lists its own id is not counted.
C17_CountsOtherDependents ==
    BlockedDone =>
        /\ ~ret.raised
        /\ ret.value = Cardinality(OtherDependents(arg.tasks, arg.task_id))

\* C18: for a record without an id at position p (from 0), high_impact and
\* smart_balance take as blocked_count count_blocked_tasks(p, tasks), also when
\* another record of the list has the same field values: the score is the
\* documented sum with that count.
C18_PositionIsId ==
    (/\ Scored /\ ret.invoked \in {"high_impact", "smart_balance"}
     /\ "id" \notin DOMAIN arg.task) =>
        ret.value[1] = DocumentedSum(ret.invoked, arg.tasks, arg.position, arg.today)

-----------------------------------------------------------------------------
(* Claims about what analyze_tasks leaves behind *)

\* C19: analyze_tasks leaves its arguments as they were: after the call the
\* input list holds the same records with the same keys and values as before.
C19_InputsUnchanged == AnalyzeDone => tasks = arg.tasks

\* the records with the field values they have, as a caller that never called
\* analyze_tasks would hold them
FirstCallRecords(ts) == [i \in 1..Len(ts) |-> Without(ts[i], "_circular_warning")]

\* C20: in a sequence of analyze_tasks calls on the same records, the caller
\* editing dependencies in between, each call returns what a first call on
\* records with the current field values returns; so a record carries the
\* cycle warning only if it is on the cycle that call detects.
C20_NothingRetained ==
    AnalyzeDone =>
        ret = analyze_tasks(FirstCallRecords(arg.tasks), arg.strategy, arg.today).out

-----------------------------------------------------------------------------
(* Claims about the sign of a score *)

\* C21: for a task validate_task accepts, score_task with each of the four
\* strategies returns a number greater than 0 and a str explanation; it
\* returns the score 0 only for a task that fails validate_task.
C21_ValidScoresPositive ==
    /\ (/\ ScoreDone /\ arg.strategy \in StrategyNames
        /\ validate_task(arg.task) = Return(<<TRUE, PyNone>>)) =>
           /\ ~ret.raised
           /\ RLt(RInt(0), ret.value[1])
           /\ ret.value[2].k = "str"
    /\ (ScoreDone /\ ~ret.raised /\ ret.value[1] = RInt(0)) =>
           /\ ~validate_task(arg.task).raised
           /\ ~validate_task(arg.task).value[1]

\* the same over the calls of score_task that return
C21_ReturnedScoresPositive ==
    /\ (Scored /\ arg.strategy \in StrategyNames) =>
           /\ RLt(RInt(0), ret.value[1])
           /\ ret.value[2].k = "str"
    /\ (ScoreDone /\ ~ret.raised /\ ret.value[1] = RInt(0)) =>
           /\ ~validate_task(arg.task).raised
           /\ ~validate_task(arg.task).value[1]

-----------------------------------------------------------------------------
(* Calls of score_task on one valid task among tasks that depend on it *)

\* the most days a due date lies before or after AnalyzeToday, and the most
\* tasks that follow the scored task in the list
StrategyMaxDays == 35
StrategyMaxOthers == 2

\* the character of a digit
Digit(n) == CHOOSE c \in Digits : DigitVal(c) = n

\* date.isoformat() of the date with ordinal n: YYYY-MM-DD
DateStr(n) ==
    LET y == CHOOSE yy \in 2024..2026 : n - DaysBeforeYear(yy) \in 1..(IF IsLeap(yy) THEN 366 ELSE 365)
        m == CHOOSE mm \in 1..12 :
                 n - DaysBeforeYear(y) - DaysBeforeMonth(y, mm) \in 1..DaysInMonth(y, mm)
        d == n - DaysBeforeYear(y) - DaysBeforeMonth(y, m)
    IN <<Digit(y \div 1000), Digit((y \div 100) % 10), Digit((y \div 10) % 10), Digit(y % 10),
         "-", Digit(m \div 10), Digit(m % 10), "-", Digit(d \div 10), Digit(d % 10)>>

\* the values of the scored task's fields (<<>>: the key is absent)
StrategyImportances ==
    {<<>>} \cup {[importance |-> v] : v \in {PyInt(1), PyInt(10), PyFloat(15, 2)}}

StrategyHours ==
    {<<>>} \cup
    {[estimated_hours |-> v] : v \in {PyInt(0), PyInt(1), PyInt(16), PyFloat(3, 2), PyInf}}

StrategyDueDates ==
    {<<>>} \cup
    {[due_date |-> PyStr(DateStr(AnalyzeToday + k))] :
        k \in (0 - StrategyMaxDays)..StrategyMaxDays}

StrategyIds == {<<>>, [id |-> PyInt(7)]}

\* a task that lists task_id among its dependencies, and one that does not
Dependent(task_id) ==
    [title |-> PyStr(<<"U">>), dependencies |-> PyList(<<PyInt(99), task_id>>)]
Bystander == [title |-> PyStr(<<"U">>), dependencies |-> PyList(<<PyInt(99)>>)]

\* the lists that may follow a scored task with that id
StrategyOthers(task_id) == SeqsUpTo({Dependent(task_id), Bystander}, StrategyMaxOthers)

InitStrategy ==
    /\ \E i \in StrategyImportances, h \in StrategyHours, d \in StrategyDueDates,
          id \in StrategyIds :
          \E others \in StrategyOthers(Get(id, "id", PyInt(0))) :
             tasks = <<[title |-> PyStr(<<"T">>)] @@ i @@ h @@ d @@ id>> \o others
    /\ pc = "call"
    /\ op = "none"
    /\ arg = <<>>
    /\ dfs = Idle
    /\ ret = NoRet

\* score_task(tasks[0], tasks, strategy, today) is called with one of the four
\* strategy names
ScoreStrategy ==
    /\ pc = "call"
    /\ \E strategy \in StrategyNames :
          /\ arg' = [task |-> tasks[1], tasks |-> tasks, strategy |-> strategy,
                     today |-> AnalyzeToday]
          /\ ret' = score_task(tasks[1], tasks, strategy, AnalyzeToday)
    /\ op' = "score_task"
    /\ pc' = "done"
    /\ UNCHANGED <<tasks, dfs>>

NextStrategy == ScoreStrategy

SpecStrategy == InitStrategy /\ [][NextStrategy]_vars

-----------------------------------------------------------------------------
(* Claims about how a score moves with one field of the task *)

\* the number of tasks of ts that list the id of the first task as a dependency
DependentsOfFirst(ts) ==
    Cardinality({j \in 1..Len(ts) :
                    /\ "dependencies" \in DOMAIN ts[j]
                    /\ \E h \in 1..Len(ts[j]["dependencies"].v) :
                          ts[j]["dependencies"].v[h] = Get(ts[1], "id", PyInt(0))})

\* the score score_task gives the scored task among other following tasks
ScoreAmong(others) ==
    score_task(arg.task, <<arg.task>> \o others, arg.strategy, arg.today).value[1]

\* the points a strategy gives per dependent
PerDependent(strategy) == IF strategy = "high_impact" THEN 15 ELSE 20

\* C22: under high_impact and smart_balance, of two valid tasks that differ
\* only in the number of tasks listing their id as a dependency, the one with
\* more dependents scores higher, by 15 and by 20 per dependent; with two
\* dependents the score is above the score with none. Stated against the
\* same task with no dependents: the score is that score plus 15 (or 20) per
\* dependent, so two lists differ by 15 (or 20) per dependent they differ in.
C22_MoreDependentsMore ==
    (Scored /\ ret.invoked \in {"high_impact", "smart_balance"}) =>
        LET more == DependentsOfFirst(arg.tasks)
        IN /\ ret.value[1] = RAdd(ScoreAmong(<<>>), RInt(PerDependent(ret.invoked) * more))
           /\ ret.value[1] = RAdd(ScoreAmong(<<Bystander>>),
                                  RInt(PerDependent(ret.invoked) * more))
           /\ more > 0 => RLt(ScoreAmong(<<>>), ret.value[1])

\* a task that two others depend on was scored by smart_balance, 40 above the
\* score it has alone
C22_Witness ==
    /\ Scored /\ ret.invoked = "smart_balance"
    /\ DependentsOfFirst(arg.tasks) = 2
    /\ ret.value[1] = RAdd(ScoreAmong(<<>>), RInt(40))

\* the same by high_impact, for a task without an id
C22_WitnessHighImpact ==
    /\ Scored /\ ret.invoked = "high_impact"
    /\ "id" \notin DOMAIN arg.task
    /\ DependentsOfFirst(arg.tasks) = 2
    /\ RLt(ScoreAmong(<<>>), ret.value[1])

\* the hours values a task may be given, and a has fewer hours than b
GivenHours == {PyInt(0), PyInt(1), PyInt(16), PyFloat(3, 2), PyInf}
FewerHours(a, b) == a.k # "inf" /\ (b.k = "inf" \/ RLt(Num(a), Num(b)))

\* the score score_task gives the scored task with estimated_hours h instead
ScoreWithHours(h) ==
    LET task == [arg.task EXCEPT !["estimated_hours"] = h]
    IN score_task(task, <<task>> \o Tail(arg.tasks), arg.strategy, arg.today).value[1]

\* C23: under fastest_wins, of two valid tasks that differ only in
\* estimated_hours the one with fewer hours never scores lower, and a task
\* with 1 hour scores higher than the same task with 16 hours.
C23_FewerHoursNotLower ==
    (Scored /\ ret.invoked = "fastest_wins" /\ "estimated_hours" \in DOMAIN arg.task) =>
        /\ \A h \in GivenHours :
              FewerHours(arg.task["estimated_hours"], h) =>
                  RLe(ScoreWithHours(h), ret.value[1])
        /\ arg.task["estimated_hours"] = PyInt(1) =>
              RLt(ScoreWithHours(PyInt(16)), ret.value[1])

\* a task with 1 hour was scored by fastest_wins, above its score with 16
C23_Witness ==
    /\ Scored /\ ret.invoked = "fastest_wins"
    /\ "estimated_hours" \in DOMAIN arg.task /\ arg.task["estimated_hours"] = PyInt(1)
    /\ RLt(ScoreWithHours(PyInt(16)), ret.value[1])

\* a task with 16 hours was scored by fastest_wins, level with its score with
\* hours without end: both take the floor of the effort score
C23_WitnessFloor ==
    /\ Scored /\ ret.invoked = "fastest_wins"
    /\ "estimated_hours" \in DOMAIN arg.task /\ arg.task["estimated_hours"] = PyInt(16)
    /\ ScoreWithHours(PyInf) = ret.value[1]

\* the due date of the scored task as a date, and the days from the day of
\* the call to it
DueOf(task) == Strptime(task["due_date"].v).value
DaysToDue == DueOf(arg.task) - arg.today

\* the score score_task gives the scored task with its due date n days later
ScoreDueLater(n) ==
    LET task == [arg.task EXCEPT !["due_date"] = PyStr(DateStr(DueOf(arg.task) + n))]
    IN score_task(task, <<task>> \o Tail(arg.tasks), arg.strategy, arg.today).value[1]

\* C29: under smart_balance, with importance, hours and dependents fixed, a
\* task never scores higher with a later due date than with an earlier one,
\* from overdue through today and the third day to the far future. Stated for
\* a due date and the day after it, which gives every pair of due dates.
C29_LaterDueNotHigher ==
    (/\ Scored /\ ret.invoked = "smart_balance"
     /\ "due_date" \in DOMAIN arg.task
     /\ DaysToDue < StrategyMaxDays) =>
        RLe(ScoreDueLater(1), ret.value[1])

\* a task due yesterday was scored above its score when due today, where the
\* weights change from the overdue ones
C29_Witness ==
    /\ Scored /\ ret.invoked = "smart_balance"
    /\ "due_date" \in DOMAIN arg.task /\ DaysToDue = -1
    /\ "estimated_hours" \in DOMAIN arg.task /\ arg.task["estimated_hours"] = PyInt(0)
    /\ RLt(ScoreDueLater(1), ret.value[1])

\* a task due in 3 days was scored above its score when due in 4, where the
\* weights change to the default ones
C29_WitnessThirdDay ==
    /\ Scored /\ ret.invoked = "smart_balance"
    /\ "due_date" \in DOMAIN arg.task /\ DaysToDue = 3
    /\ "estimated_hours" \in DOMAIN arg.task /\ arg.task["estimated_hours"] = PyInt(0)
    /\ RLt(ScoreDueLater(1), ret.value[1])

\* a task due in 31 days was scored level with its score when due in 32
C29_WitnessFarFuture ==
    /\ Scored /\ ret.invoked = "smart_balance"
    /\ "due_date" \in DOMAIN arg.task /\ DaysToDue = 31
    /\ ScoreDueLater(1) = ret.value[1]

-----------------------------------------------------------------------------
(* Calls of get_top_tasks *)

\* the longest task list handed to get_top_tasks
TopMaxTasks == 3

\* the tasks of the list: a low and a high importance, a task without a title,
\* each with no dependencies or depending on the first position
TopTaskValues ==
    {b @@ d :
        b \in {[title |-> PyStr(<<"a">>), importance |-> PyInt(1)],
               [title |-> PyStr(<<"b">>), importance |-> PyInt(9)],
               [importance |-> PyInt(5)]},
        d \in {<<>>, [dependencies |-> PyList(<<PyInt(0)>>)]}}

\* the strategy names and the counts given to get_top_tasks
TopStrategies == {"smart_balance", "deadline_driven"}
TopCounts == (0 - 2)..(TopMaxTasks + 1)

InitTop ==
    /\ \E n \in 0..TopMaxTasks : tasks \in [1..n -> TopTaskValues]
    /\ pc = "call"
    /\ op = "none"
    /\ arg = <<>>
    /\ dfs = Idle
    /\ ret = NoRet

\* get_top_tasks(tasks, strategy, top_n) is called
GetTopTasks ==
    /\ pc = "call"
    /\ \E strategy \in TopStrategies, top_n \in TopCounts :
          LET r == get_top_tasks(tasks, strategy, top_n, AnalyzeToday)
          IN /\ arg' = [tasks |-> tasks, strategy |-> strategy, top_n |-> top_n,
                        today |-> AnalyzeToday]
             /\ ret' = r.out
             /\ tasks' = r.tasks
    /\ op' = "get_top_tasks"
    /\ pc' = "done"
    /\ UNCHANGED dfs

NextTop == GetTopTasks

SpecTop == InitTop /\ [][NextTop]_vars

-----------------------------------------------------------------------------
(* Claims about get_top_tasks *)

TopDone == pc = "done" /\ op = "get_top_tasks"

\* what analyze_tasks returns for the arguments of the call
Analyzed == analyze_tasks(arg.tasks, arg.strategy, arg.today).out

\* the first n elements of seq, none for an n below 1
FirstOf(seq, n) == [i \in 1..n |-> seq[i]]

\* the smaller of two ints
Smaller(a, b) == IF a < b THEN a ELSE b

\* C24: get_top_tasks(tasks, strategy, top_n) returns the first
\* min(top_n, len(tasks)) records of analyze_tasks(tasks, strategy), in their
\* order, for every top_n and every task list.
C24_FirstTopN ==
    (TopDone /\ ~Analyzed.raised) =>
        /\ ~ret.raised
        /\ ret.value = FirstOf(Analyzed.value, Smaller(arg.top_n, Len(arg.tasks)))

\* the same for the counts that are not negative
C24_FirstTopNFromZero ==
    (TopDone /\ ~Analyzed.raised /\ arg.top_n >= 0) =>
        /\ ~ret.raised
        /\ ret.value = FirstOf(Analyzed.value, Smaller(arg.top_n, Len(arg.tasks)))

-----------------------------------------------------------------------------
(* Calls of build_dependency_graph *)

\* the longest task list handed to build_dependency_graph
GraphMaxTasks == 2

\* the dependencies of a task: no key, a position, a position twice, two
\* positions, an id no task has
GraphDeps ==
    {<<>>} \cup
    {[dependencies |-> PyList(d)] :
        d \in {<<PyInt(0)>>, <<PyInt(1)>>, <<PyInt(0), PyInt(0)>>, <<PyInt(1), PyInt(0)>>,
               <<PyInt(5)>>}}

\* a title of 21 characters
LongTitle ==
    <<"a", "b", "c", "d", "e", "f", "g", "h", "i", "j", "k",
      "l", "m", "n", "o", "p", "q", "r", "s", "t", "u">>

\* the title of a task: no key, a short one, a long one, null
GraphTitles ==
    {<<>>, [title |-> PyStr(<<"a", "b">>)], [title |-> PyStr(LongTitle)], [title |-> PyNone]}

InitGraph ==
    /\ \E n \in 0..GraphMaxTasks, scheme \in DfsIdSchemes :
          \E deps \in [1..n -> GraphDeps], titles \in [1..n -> GraphTitles] :
             tasks = [i \in 1..n |-> DfsIdOf(scheme, i) @@ deps[i] @@ titles[i]]
    /\ pc = "call"
    /\ op = "none"
    /\ arg = <<>>
    /\ dfs = Idle
    /\ ret = NoRet

\* build_dependency_graph(tasks) is called
BuildGraph ==
    /\ pc = "call"
    /\ op' = "build_dependency_graph"
    /\ arg' = [tasks |-> tasks]
    /\ ret' = build_dependency_graph(tasks)
    /\ pc' = "done"
    /\ UNCHANGED <<tasks, dfs>>

NextGraph == BuildGraph

SpecGraph == InitGraph /\ [][NextGraph]_vars

-----------------------------------------------------------------------------
(* Claims about build_dependency_graph *)

GraphDone == pc = "done" /\ op = "build_dependency_graph"

\* the dependency entries (task position, entry position) of ts whose id is
\* the effective id of a task of ts
KnownEntries(ts) ==
    {e \in (1..Len(ts)) \X (1..2) :
        /\ "dependencies" \in DOMAIN ts[e[1]]
        /\ e[2] <= Len(ts[e[1]]["dependencies"].v)
        /\ \E h \in 1..Len(ts) : EffectiveId(ts, h) = ts[e[1]]["dependencies"].v[e[2]]}

\* the title of a node's label: what follows the id and ": "
LabelTitle(node) == SubSeq(node.label.v, 3, Len(node.label.v))

\* C25: build_dependency_graph returns one node per task, in input order, with
\* the task's effective id, its title and a label of the id and at most the
\* first 20 characters of the title; one edge (from the task's effective id, to
\* the dependency id) for exactly the dependency entries whose id is the
\* effective id of a task of the list, so both ends of an edge are node ids; and
\* as circular_nodes the set of the ids on the cycle path that
\* detect_circular_dependencies reports for the list, empty exactly when there
\* is no cycle.
C25_GraphOfTasks ==
    (GraphDone /\ ~ret.raised) =>
        LET g == ret.value
            ts == arg.tasks
            ids == {g.nodes[i].id : i \in 1..Len(g.nodes)}
        IN /\ Len(g.nodes) = Len(ts)
           /\ \A i \in 1..Len(ts) :
                 /\ g.nodes[i].id = EffectiveId(ts, i)
                 /\ g.nodes[i].label.v[1] = ToString(EffectiveId(ts, i).v)
                 /\ Len(LabelTitle(g.nodes[i])) <= 20
                 /\ "title" \in DOMAIN ts[i] =>
                       /\ g.nodes[i].title = ts[i]["title"]
                       /\ \A c \in 1..Len(LabelTitle(g.nodes[i])) :
                             LabelTitle(g.nodes[i])[c] = ts[i]["title"].v[c]
                       /\ Len(LabelTitle(g.nodes[i])) = Smaller(20, Len(ts[i]["title"].v))
           /\ \A k \in 1..Len(g.edges) : g.edges[k].from \in ids /\ g.edges[k].to \in ids
           /\ \A a, b \in ids \cup {PyInt(5)} :
                 Cardinality({k \in 1..Len(g.edges) : g.edges[k] = [from |-> a, to |-> b]})
                 = Cardinality({e \in KnownEntries(ts) :
                                   /\ EffectiveId(ts, e[1]) = a
                                   /\ ts[e[1]]["dependencies"].v[e[2]] = b})
           /\ Len(g.edges) = Cardinality(KnownEntries(ts))
           /\ g.circular_nodes = {CyclePath(ts)[j] : j \in 1..Len(CyclePath(ts))}
           /\ (g.circular_nodes = {}) <=> ~detect_circular_dependencies(ts).has
           /\ UniqueIds(ts) => ((g.circular_nodes = {}) <=> ~HasDirectedCycle(ts))

\* a graph was returned for two tasks on a cycle, one with a title of more
\* than 20 characters and one listing an id no task has
C25_Witness ==
    /\ GraphDone /\ ~ret.raised
    /\ Len(arg.tasks) = 2
    /\ \E i \in 1..2 : "title" \in DOMAIN arg.tasks[i] /\ Len(arg.tasks[i]["title"].v) > 20
                       /\ Len(LabelTitle(ret.value.nodes[i])) = 20
    /\ Cardinality(ret.value.circular_nodes) = 2
    /\ Len(ret.value.edges) = 3

\* a graph without circular nodes was returned for a task with an edge and a
\* dependency on an id no task has, which gave no edge
C25_WitnessDangling ==
    /\ GraphDone /\ ~ret.raised
    /\ ret.value.circular_nodes = {}
    /\ \E i \in 1..Len(arg.tasks) :
          "dependencies" \in DOMAIN arg.tasks[i]
          /\ arg.tasks[i]["dependencies"] = PyList(<<PyInt(5)>>)
    /\ Len(ret.value.edges) = 1

-----------------------------------------------------------------------------
(* Requests to the analyze and suggest endpoints *)

\* the longest task list of a request
ViewMaxTasks == 2

\* the dependencies of a task of a request: no key, or a list of one position
ViewDeps ==
    {<<>>} \cup {[dependencies |-> PyList(<<PyInt(n)>>)] : n \in 0..(ViewMaxTasks - 1)}

\* the tasks of a request: with or without an id and a title
ViewTaskValues ==
    {i @@ d @@ t : i \in AnalyzeIds, d \in ViewDeps,
                   t \in {[title |-> PyStr(<<"a">>)], [importance |-> PyInt(9)]}}

\* the other keys of a request body
ViewStrategies == {<<>>, [strategy |-> "high_impact"]}
ViewWeekends == {<<>>, [consider_weekends |-> TRUE], [consider_weekends |-> FALSE]}

\* the 'tasks' of a request that holds the list ts: the list, or a str
ViewTasks(ts) == {[tasks |-> PyList(ts)], [tasks |-> PyStr(<<"x">>)]}

InitView ==
    /\ \E n \in 0..ViewMaxTasks : tasks \in [1..n -> ViewTaskValues]
    /\ pc = "call"
    /\ op = "none"
    /\ arg = <<>>
    /\ dfs = Idle
    /\ ret = NoRet

\* POST /api/tasks/analyze/ with a JSON object
PostAnalyze ==
    /\ pc = "call"
    /\ \E t \in ViewTasks(tasks), s \in ViewStrategies, w \in ViewWeekends :
          /\ arg' = [method |-> "POST", body |-> t @@ s @@ w, today |-> AnalyzeToday]
          /\ ret' = Return(analyze_tasks_view(t @@ s @@ w, AnalyzeToday))
    /\ op' = "analyze_tasks_view"
    /\ pc' = "done"
    /\ UNCHANGED <<tasks, dfs>>

\* POST /api/tasks/suggest/ with a JSON object
PostSuggest ==
    /\ pc = "call"
    /\ \E t \in ViewTasks(tasks), s \in ViewStrategies, w \in ViewWeekends :
          /\ arg' = [method |-> "POST", body |-> t @@ s @@ w, today |-> AnalyzeToday]
          /\ ret' = Return(suggest_tasks_view("POST", t @@ s @@ w, AnalyzeToday))
    /\ op' = "suggest_tasks_view"
    /\ pc' = "done"
    /\ UNCHANGED <<tasks, dfs>>

\* GET /api/tasks/suggest/ with the tasks and the strategy as query parameters
GetSuggest ==
    /\ pc = "call"
    /\ \E t \in ViewTasks(tasks), s \in ViewStrategies :
          /\ arg' = [method |-> "GET", body |-> t @@ s, today |-> AnalyzeToday]
          /\ ret' = Return(suggest_tasks_view("GET", t @@ s, AnalyzeToday))
    /\ op' = "suggest_tasks_view"
    /\ pc' = "done"
    /\ UNCHANGED <<tasks, dfs>>

NextView ==
    \/ PostAnalyze
    \/ PostSuggest
    \/ GetSuggest

SpecView == InitView /\ [][NextView]_vars

-----------------------------------------------------------------------------
(* Claims about the endpoints *)

\* a request with a list of tasks was answered
ListAnswered(view) ==
    pc = "done" /\ op = view /\ arg.method = "POST" /\ arg.body["tasks"].k = "list"

\* what analyze_tasks returns for the tasks and the strategy of the request
AnalyzedForRequest ==
    analyze_tasks(arg.body["tasks"].v, Get(arg.body, "strategy", "smart_balance"),
                  arg.today).out.value

\* C26: POST /api/tasks/analyze/ with a JSON object whose 'tasks' is a list of
\* task records is answered with status 200 and the tasks as analyze_tasks
\* returns them, the strategy, the number of tasks as count, and a warning
\* exactly when detect_circular_dependencies reports a cycle; the suggest
\* endpoint answers a list that is not empty with status 200 and the first 3
\* analyzed tasks.
C26_EndpointsAnswer200 ==
    /\ ListAnswered("analyze_tasks_view") =>
          /\ ret.value.status = 200
          /\ ret.value.body["tasks"] = AnalyzedForRequest
          /\ ret.value.body["strategy"] = Get(arg.body, "strategy", "smart_balance")
          /\ ret.value.body["count"] = Len(arg.body["tasks"].v)
          /\ ("warning" \in DOMAIN ret.value.body)
                <=> detect_circular_dependencies(arg.body["tasks"].v).has
    /\ (ListAnswered("suggest_tasks_view") /\ arg.body["tasks"].v # <<>>) =>
          /\ ret.value.status = 200
          /\ ret.value.body["suggestions"]
                = FirstOf(AnalyzedForRequest, Smaller(3, Len(AnalyzedForRequest)))

\* the answers the endpoints give a list of tasks: a server error
C26_EndpointsAnswer500 ==
    /\ ListAnswered("analyze_tasks_view") => ret.value.status = 500
    /\ (ListAnswered("suggest_tasks_view") /\ arg.body["tasks"].v # <<>>) =>
          ret.value.status = 500

-----------------------------------------------------------------------------
(* The calendar utilities. scoring.py holds no is_weekend, is_holiday or     *)
(* count_working_days, which tests.py imports from it: they are written here *)
(* from the design document (4.1), with the convention (start, end] it       *)
(* names and the two holidays it names.                                      *)

\* date.weekday() of the date with ordinal n: 0 is Monday
Weekday(n) == (n - 1) % 7

\* is_weekend(date): the date is a Saturday or a Sunday
is_weekend(n) == Weekday(n) \in {5, 6}

\* the fixed holidays, as (month, day): New Year's Day and Christmas
Holidays == {<<1, 1>>, <<12, 25>>}

\* the years of the dates handed to the calendar utilities
CalendarYears == 2025..2026

\* is_holiday(date): the month and day of the date are those of a holiday
is_holiday(n) == \E y \in CalendarYears, h \in Holidays : n = Ordinal(y, h[1], h[2])

\* the count with both start and end counted
count_working_days_Inclusive(start, end) ==
    Cardinality({d \in start..end : ~is_weekend(d) /\ ~is_holiday(d)})

\* count_working_days(start, end): the days after start up to end that are
\* neither weekend days nor holidays
count_working_days(start, end) ==
    Cardinality({d \in (start + 1)..end : ~is_weekend(d) /\ ~is_holiday(d)})

-----------------------------------------------------------------------------
(* Calls of count_working_days *)

\* the most days start and end lie after the first day of the calls
CalendarMaxDays == 35

\* the first day of the calls: Friday 2025-11-28
CalendarFirstDay == Ordinal(2025, 11, 28)

CalendarDays == {CalendarFirstDay + k : k \in 0..CalendarMaxDays}

InitCalendar ==
    /\ tasks = <<>>
    /\ pc = "call"
    /\ op = "none"
    /\ \E start \in CalendarDays, end \in CalendarDays : arg = [start |-> start, end |-> end]
    /\ dfs = Idle
    /\ ret = NoRet

\* count_working_days(start, end) is called
CountWorkingDays ==
    /\ pc = "call"
    /\ op' = "count_working_days"
    /\ ret' = Return(count_working_days(arg.start, arg.end))
    /\ pc' = "done"
    /\ UNCHANGED <<tasks, arg, dfs>>

NextCalendar == CountWorkingDays

SpecCalendar == InitCalendar /\ [][NextCalendar]_vars

-----------------------------------------------------------------------------
(* Claims about count_working_days *)

CalendarDone == pc = "done" /\ op = "count_working_days"

\* a day off by the calendar: a Saturday or a Sunday, counted from Saturday
\* 2025-11-29, or a date that reads -01-01 or -12-25
DayOff(n) ==
    \/ (n - Ordinal(2025, 11, 29)) % 7 \in {0, 1}
    \/ SubSeq(DateStr(n), 5, 10) \in {<<"-", "0", "1", "-", "0", "1">>,
                                      <<"-", "1", "2", "-", "2", "5">>}

C27_WitnessHolidays ==
    /\ CalendarDone
    /\ arg.start = Ordinal(2025, 12, 24) /\ arg.end = Ordinal(2026, 1, 1)
    /\ ret.value = 4

-----------------------------------------------------------------------------
(* Claims about the steps of the depth-first search *)

\* the search is under way or has stopped with its locals as they were
Searching == pc = "dfs" \/ (DetectDone /\ dfs.status = "returned")

\* the recursion stack and the path of the search agree
StackIsPath ==
    /\ dfs.rec_stack = {dfs.path[j] : j \in 1..Len(dfs.path)}
    /\ \A i, j \in 1..Len(dfs.path) : i # j => dfs.path[i] # dfs.path[j]
    /\ dfs.rec_stack \subseteq dfs.visited
    /\ dfs.path = [j \in 1..Len(dfs.frames) |-> dfs.frames[j].node]

\* a step of the search that enters a node enters one not visited before, and
\* no step takes a node out of visited
EntersOnce ==
    (pc = "dfs" /\ pc' \in {"dfs", "done"}) =>
        /\ dfs.visited \subseteq dfs'.visited
        /\ Len(dfs'.frames) > Len(dfs.frames) =>
              /\ Top(dfs').node \notin dfs.visited
              /\ dfs'.visited = dfs.visited \cup {Top(dfs').node}
        /\ Len(dfs'.frames) <= Len(dfs.frames) => dfs'.visited = dfs.visited

\* C28: at every step of the depth-first search, up to the report of a cycle,
\* rec_stack holds exactly the ids on the current path, the path holds no id
\* twice, every id of rec_stack is in visited, and an id is entered (added to
\* visited) at most once in the whole search, whatever the root.
C28_SearchInvariant ==
    /\ [](Searching => StackIsPath)
    /\ [][EntersOnce]_vars

\* the search entered a second root after it had left the first one: one id
\* is on the path, two are visited
C28_Witness ==
    /\ pc = "dfs"
    /\ dfs.root = 3
    /\ Len(dfs.path) = 1
    /\ Cardinality(dfs.visited) = 2
    /\ Cardinality(dfs.rec_stack) = 1

\* the search is two calls deep and examines a neighbor that is on its path
C28_WitnessDeep ==
    /\ pc = "dfs"
    /\ Len(dfs.path) = 2
    /\ HasNeighbor(dfs) /\ Neighbor(dfs) \in dfs.rec_stack


=============================================================================
